---- MODULE Spec2Model ----
(***************************************************************************)
(* Django Mercury: the measurement-to-verdict pipeline.                    *)
(*                                                                         *)
(*   config.py   resolve_thresholds   threshold layers                     *)
(*   monitor.py  monitor, _check_thresholds, _format_report                *)
(*   export.py   export_html, export_summary_html                          *)
(*   n_plus_one.py normalize_query, detect_n_plus_one                      *)
(*   summary.py  MercurySummaryTracker: instance, add_result, print_summary *)
(*                                                                         *)
(* Spec         one monitoring session, from monitor() to session exit     *)
(* SpecResolve  resolve_thresholds applied to every bounded input          *)
(* SpecCheck    _check_thresholds applied to every bounded input           *)
(* SpecThresholds  resolve_thresholds on its own and inside a session      *)
(* SpecDetect    detect_n_plus_one applied to every bounded query list     *)
(* SpecNormalize normalize_query applied to every bounded text             *)
(* SpecLiterals  normalize_query on pairs of queries of one structure      *)
(* SpecReport    _format_report applied to every bounded result            *)
(* SpecTruncate  _truncate_sql applied to every bounded text and length    *)
(* SpecExport    _format_report and export_html on every checked result    *)
(* SpecSlowest   _format_slowest_section on every bounded list of results  *)
(* SpecPatternSummary  _format_n_plus_one_summary on every bounded list    *)
(* SpecCollector add_result, print_summary and export_html in any order    *)
(* SpecThreads   instance().add_result on threads, interleaved step by step *)
(***************************************************************************)
EXTENDS Integers, Sequences, FiniteSets, TLC

VARIABLES
    pc,             \* position of the running code
    call,           \* arguments of a directly called function
    ret,            \* its return value
    collab,         \* state of the Django collaborator
    result,         \* the session's MonitorResult
    query_context,  \* queries captured by CaptureQueriesContext so far
    tracker,        \* MercurySummaryTracker.results
    raised,         \* exceptions that left the session, in order
    _instance,      \* MercurySummaryTracker._instance
    atexit,         \* the handlers registered with atexit, in order
    stdout          \* what has been printed, in order

vars == <<pc, call, ret, collab, result, query_context, tracker, raised,
          _instance, atexit, stdout>>

(***************************************************************************)
(* Bounds of the model.                                                    *)
(***************************************************************************)
\* frames of the call stack below resolve_thresholds
MaxFrames == 2
\* frames of the callers of a session
MaxCallers == 1
\* queries in one list given to detect_n_plus_one
MaxBatch == 7
\* pieces of a text given to normalize_query
MaxTokens == 4
\* characters of a text given to _truncate_sql
MaxSqlLen == 5
\* results in a list given to _format_slowest_section
MaxRanked == 11
\* results in a list given to _format_n_plus_one_summary
MaxTests == 7
\* results added to the collector
MaxCollected == 3
\* summaries printed by a process
MaxPrints == 1
\* threads that end a session at the same time
MaxThreads == 2
\* literals in a query of a pair
MaxSlots == 2
\* elements in an IN list
MaxElements == 3
\* largest pattern count and N+1 threshold handed to _check_thresholds
MaxCount == 10
\* patterns handed to _check_thresholds
MaxPatterns == 2
\* largest elapsed time, in ms, and largest query count handed to _check_thresholds
MaxMeasure == 2
\* queries the monitored body issues
MaxQueries == 3

None == [kind |-> "none"]

Max(a, b) == IF a >= b THEN a ELSE b
Min(a, b) == IF a <= b THEN a ELSE b

\* Python's int(): truncation toward zero of the rational num/den, den > 0.
PyInt(num, den) == IF num >= 0 THEN num \div den ELSE 0 - ((0 - num) \div den)

\* Python's s[:n].
PyPrefix(s, n) ==
    IF n >= 0 THEN SubSeq(s, 1, Min(n, Len(s)))
    ELSE SubSeq(s, 1, Max(Len(s) + n, 0))

(***************************************************************************)
(* config.py                                                               *)
(***************************************************************************)
Keys == {"response_time_ms", "query_count", "n_plus_one_threshold"}

DEFAULTS == [response_time_ms |-> 100, query_count |-> 10, n_plus_one_threshold |-> 10]

DictUpdate_replace(d, m) == m

\* dict.update(m) for a mapping m.
DictUpdate(d, m) ==
    [k \in (DOMAIN d) \cup (DOMAIN m) |-> IF k \in DOMAIN m THEN m[k] ELSE d[k]]

\* A configuration value as a layer finds it:
\*   none    None or a missing attribute
\*   empty   the empty mapping {}
\*   dict    a non-empty mapping
\*   bad     a truthy value that is no mapping: update() raises on it after
\*           it has merged the well-formed pairs that come first (items),
\*           e.g. 5 (no pair) or [("query_count", 1), ("x",)] (one pair)
\*   raises  reading the value raises (Django missing or not configured)
Truthy(cfg) == cfg.kind \in {"dict", "bad"}

\* One layer inside its try block: `if cfg: thresholds.update(cfg);
\* used_defaults = False`.  The third component tells whether the block was
\* left by an exception.
MergeLayer(state, cfg) ==
    IF cfg.kind = "raises" THEN <<state[1], state[2], TRUE>>
    ELSE IF ~Truthy(cfg) THEN <<state[1], state[2], FALSE>>
    ELSE IF cfg.kind = "bad" THEN <<DictUpdate(state[1], cfg.items), state[2], TRUE>>
    ELSE <<DictUpdate(state[1], cfg.items), FALSE, FALSE>>

\* Layer 1: Django settings.
SettingsLayer(state, settings) ==
    LET m == MergeLayer(state, settings) IN <<m[1], m[2]>>

\* Layer 2: the walk over stack[1:], from frame i on.
RECURSIVE WalkStack(_, _, _)
WalkStack(state, frames, i) ==
    IF i > Len(frames) THEN state
    ELSE LET f == frames[i] IN
         IF f.module /\ Truthy(f.config)
         THEN LET m == MergeLayer(state, f.config) IN <<m[1], m[2]>>
         ELSE WalkStack(state, frames, i + 1)

FileLayer(state, stack) ==
    IF stack.raises THEN state ELSE WalkStack(state, stack.frames, 1)

\* Layer 3: inline overrides, a dict of keyword arguments.
InlineLayer(state, inline_overrides) ==
    IF DOMAIN inline_overrides # {}
    THEN <<DictUpdate(state[1], inline_overrides), FALSE>>
    ELSE state

resolve_thresholds_inline_first(inline_overrides, settings, stack) ==
    LET l3 == InlineLayer(<<DEFAULTS, TRUE>>, inline_overrides)
        l1 == SettingsLayer(l3, settings)
        l2 == FileLayer(l1, stack)
    IN  [thresholds |-> l2[1], used_defaults |-> l2[2]]

resolve_thresholds_settings_over_file(inline_overrides, settings, stack) ==
    LET l2 == FileLayer(<<DEFAULTS, TRUE>>, stack)
        l1 == SettingsLayer(l2, settings)
        l3 == InlineLayer(l1, inline_overrides)
    IN  [thresholds |-> l3[1], used_defaults |-> l3[2]]

resolve_thresholds(inline_overrides, settings, stack) ==
    LET l1 == SettingsLayer(<<DEFAULTS, TRUE>>, settings)
        l2 == FileLayer(l1, stack)
        l3 == InlineLayer(l2, inline_overrides)
    IN  [thresholds |-> l3[1], used_defaults |-> l3[2]]

(***************************************************************************)
(* The inputs of resolve_thresholds.  update() never looks at a value, so  *)
(* each layer gives its own value to every key it defines: the value tells *)
(* which layer wrote a key.                                                *)
(***************************************************************************)
SettingsValue == 1
InlineValue == SettingsValue + 1
FrameValue(i) == InlineValue + i

Mappings(v) == UNION {[S -> {v}] : S \in SUBSET Keys}

Configs(v) ==
    {None, [kind |-> "empty"]}
    \cup {[kind |-> "dict", items |-> m] : m \in Mappings(v) \ {<<>>}}
    \cup {[kind |-> "bad", items |-> m] : m \in Mappings(v)}

SettingsConfigs == Configs(SettingsValue) \cup {[kind |-> "raises"]}

\* The values a module gives the name: none, an empty mapping, a mapping of
\* one key, of two keys or of all keys, or an iterable that update() reads
\* up to its malformed item.
FrameMappings(v) ==
    {[k \in S |-> v] : S \in {{"response_time_ms"},
                                {"response_time_ms", "query_count"}, Keys}}

FrameConfigs(v) ==
    {None, [kind |-> "empty"]}
    \cup {[kind |-> "dict", items |-> m] : m \in FrameMappings(v)}
    \cup {[kind |-> "bad", items |-> m] :
            m \in {<<>>, [response_time_ms |-> v]}}

FramesAt(i) ==
    {[module |-> FALSE, config |-> None]}
    \cup {[module |-> TRUE, config |-> c] : c \in FrameConfigs(FrameValue(i))}

RECURSIVE FrameSeqs(_)
FrameSeqs(n) ==
    IF n = 0 THEN {<<>>}
    ELSE {Append(s, f) : s \in FrameSeqs(n - 1), f \in FramesAt(n)}

StacksUpTo(depth) ==
    {[raises |-> TRUE, frames |-> <<>>]}
    \cup {[raises |-> FALSE, frames |-> s] :
            s \in UNION {FrameSeqs(n) : n \in 0..depth}}

Stacks == StacksUpTo(MaxFrames)

NoCall == [fn |-> "none"]
Returned(fn) == pc = "returned" /\ call.fn = fn
NoResult == [kind |-> "none"]

ResolveCalls ==
    {[fn |-> "resolve_thresholds", inline_overrides |-> i, settings |-> s, stack |-> k] :
        i \in Mappings(InlineValue), s \in SettingsConfigs, k \in Stacks}

InitResolve ==
    /\ pc = "call"
    /\ call \in ResolveCalls
    /\ ret = None
    /\ collab = "ok"
    /\ result = NoResult
    /\ query_context = <<>>
    /\ tracker = <<>>
    /\ raised = <<>>
    /\ _instance = None
    /\ atexit = <<>>
    /\ stdout = <<>>

Resolve ==
    /\ pc = "call"
    /\ call.fn = "resolve_thresholds"
    /\ ret' = resolve_thresholds(call.inline_overrides, call.settings, call.stack)
    /\ pc' = "returned"
    /\ UNCHANGED <<_instance, atexit, stdout, call, collab, result, query_context, tracker, raised>>

NextResolve == Resolve

SpecResolve == InitResolve /\ [][NextResolve]_vars

(***************************************************************************)
(* n_plus_one.py                                                           *)
(*                                                                         *)
(* The regular expressions of normalize_query, each as the place where a   *)
(* match that starts at position i ends (0: no match at i).                *)
(***************************************************************************)
N1Pattern(normalized_query, count, sample_queries) ==
    [normalized_query |-> normalized_query, count |-> count,
     sample_queries |-> sample_queries]

Digits == {"0", "1", "2", "3", "4", "5", "6", "7", "8", "9"}
LowerLetters == {"a", "b", "c", "d", "e", "f", "g", "h", "i", "j", "k", "l", "m",
                 "n", "o", "p", "q", "r", "s", "t", "u", "v", "w", "x", "y", "z"}
UpperLetters == {"A", "B", "C", "D", "E", "F", "G", "H", "I", "J", "K", "L", "M",
                 "N", "O", "P", "Q", "R", "S", "T", "U", "V", "W", "X", "Y", "Z"}
HexDigits == Digits \cup {"a", "b", "c", "d", "e", "f", "A", "B", "C", "D", "E", "F"}
\* \w, \s
IsWordChar(c) == c \in Digits \cup LowerLetters \cup UpperLetters \cup {"_"}
IsSpace(c) == c \in {" ", "\t", "\n", "\r", "\f"}

\* \b between positions i-1 and i of s
WordBoundary(s, i) ==
    LET before == i > 1 /\ i - 1 <= Len(s) /\ IsWordChar(s[i - 1])
        after == i >= 1 /\ i <= Len(s) /\ IsWordChar(s[i])
    IN  before # after

\* '[0-9a-f]{8}-[0-9a-f]{4}-[0-9a-f]{4}-[0-9a-f]{4}-[0-9a-f]{12}', IGNORECASE:
\* q a quote, h a hex digit, d a dash
Repeat(n, x) == [j \in 1..n |-> x]
UuidPattern ==
    <<"q">> \o Repeat(8, "h") \o <<"d">> \o Repeat(4, "h") \o <<"d">> \o Repeat(4, "h")
    \o <<"d">> \o Repeat(4, "h") \o <<"d">> \o Repeat(12, "h") \o <<"q">>

MatchUuid(s, i) ==
    LET n == Len(UuidPattern) IN
    IF /\ i + n - 1 <= Len(s)
       /\ \A j \in 1..n :
            LET c == s[i + j - 1] IN
            CASE UuidPattern[j] = "q" -> c = "'"
              [] UuidPattern[j] = "d" -> c = "-"
              [] OTHER -> c \in HexDigits
    THEN i + n - 1 ELSE 0

\* '[^']*'
MatchString(s, i) ==
    IF s[i] # "'" THEN 0
    ELSE LET closing == {j \in (i + 1)..Len(s) : s[j] = "'"} IN
         IF closing = {} THEN 0
         ELSE CHOOSE j \in closing : \A k \in closing : j <= k

\* \b\d+\b: the longest run of digits from i that ends on a word boundary
MatchNumber(s, i) ==
    IF ~WordBoundary(s, i) THEN 0
    ELSE LET ends == {j \in i..Len(s) :
                        /\ \A k \in i..j : s[k] \in Digits
                        /\ WordBoundary(s, j + 1)} IN
         IF ends = {} THEN 0
         ELSE CHOOSE j \in ends : \A k \in ends : j >= k

MatchIn_case_sensitive(s, i) ==
    IF ~(i + 1 <= Len(s) /\ s[i] = "I" /\ s[i + 1] = "N") THEN 0
    ELSE LET \* the first position after IN that holds no white space
             rest == {j \in (i + 2)..Len(s) : ~IsSpace(s[j])} IN
         IF rest = {} THEN 0
         ELSE LET open == CHOOSE j \in rest : \A k \in rest : j <= k
                  closing == {j \in (open + 1)..Len(s) : s[j] = ")"} IN
              IF s[open] # "(" \/ closing = {} THEN 0
              ELSE LET close == CHOOSE j \in closing : \A k \in closing : j <= k IN
                   \* [^)]+ needs one character at least
                   IF close = open + 1 THEN 0 ELSE close

\* IN\s*\([^)]+\), IGNORECASE
MatchIn(s, i) ==
    IF ~(i + 1 <= Len(s) /\ s[i] \in {"I", "i"} /\ s[i + 1] \in {"N", "n"}) THEN 0
    ELSE LET \* the first position after IN that holds no white space
             rest == {j \in (i + 2)..Len(s) : ~IsSpace(s[j])} IN
         IF rest = {} THEN 0
         ELSE LET open == CHOOSE j \in rest : \A k \in rest : j <= k
                  closing == {j \in (open + 1)..Len(s) : s[j] = ")"} IN
              IF s[open] # "(" \/ closing = {} THEN 0
              ELSE LET close == CHOOSE j \in closing : \A k \in closing : j <= k IN
                   \* [^)]+ needs one character at least
                   IF close = open + 1 THEN 0 ELSE close

MatchEnd(pattern, s, i) ==
    CASE pattern = "uuid" -> MatchUuid(s, i)
      [] pattern = "string" -> MatchString(s, i)
      [] pattern = "number" -> MatchNumber(s, i)
      [] pattern = "in" -> MatchIn(s, i)

\* re.sub(pattern, repl, s): the matches are taken from left to right, each
\* from the end of the one before; s is read from position i on.
RECURSIVE ReSub(_, _, _, _)
ReSub(pattern, repl, s, i) ==
    IF i > Len(s) THEN <<>>
    ELSE LET e == MatchEnd(pattern, s, i) IN
         IF e = 0 THEN <<s[i]>> \o ReSub(pattern, repl, s, i + 1)
         ELSE repl \o ReSub(pattern, repl, s, e + 1)

StringPlaceholder_unclosed == <<"'", "?">>

\* "'?'", the replacement of a quoted string
StringPlaceholder == <<"'", "?", "'">>

normalize_query(sql) ==
    LET r1 == ReSub("uuid", <<"'", "?", "'">>, sql, 1)
        r2 == ReSub("string", StringPlaceholder, r1, 1)
        r3 == ReSub("number", <<"?">>, r2, 1)
    IN  ReSub("in", <<"I", "N", " ", "(", "?", ")">>, r3, 1)

(***************************************************************************)
(* The inputs of normalize_query: texts of at most MaxTokens pieces.       *)
(***************************************************************************)
UuidBody ==
    <<"5", "5", "0", "e", "8", "4", "0", "0", "-", "E", "2", "9", "B", "-",
      "4", "1", "d", "4", "-", "a", "7", "1", "6", "-",
      "4", "4", "6", "6", "5", "5", "4", "4", "0", "0", "0", "0">>

Tokens ==
    {<<"'">>, <<"1">>, <<"a">>, <<" ">>, <<"(">>, <<")">>, <<"?">>,
     <<"I", "N">>, <<"i", "n">>, UuidBody}

RECURSIVE Texts(_)
Texts(n) ==
    IF n = 0 THEN {<<>>}
    ELSE LET shorter == Texts(n - 1) IN
         shorter \cup {t \o k : t \in shorter, k \in Tokens}

InitNormalize ==
    /\ pc = "call"
    /\ call \in {[fn |-> "normalize_query", sql |-> t] : t \in Texts(MaxTokens)}
    /\ ret = None
    /\ collab = "ok"
    /\ result = NoResult
    /\ query_context = <<>>
    /\ tracker = <<>>
    /\ raised = <<>>
    /\ _instance = None
    /\ atexit = <<>>
    /\ stdout = <<>>

Normalize ==
    /\ pc = "call"
    /\ call.fn = "normalize_query"
    /\ ret' = normalize_query(call.sql)
    /\ pc' = "returned"
    /\ UNCHANGED <<_instance, atexit, stdout, call, collab, result, query_context, tracker, raised>>

NextNormalize == Normalize

SpecNormalize == InitNormalize /\ [][NextNormalize]_vars

(***************************************************************************)
(* Pairs of queries of one structure, as the grouping loop of              *)
(* detect_n_plus_one meets them: x=<literal> y=<literal> ... with two      *)
(* choices of the literals, and x IN (<list>) z with two lists.            *)
(***************************************************************************)
OtherUuidBody == [j \in 1..Len(UuidBody) |-> IF UuidBody[j] = "5" THEN "F" ELSE UuidBody[j]]

\* the literals of a kind, as SQL writes them; a quote inside a string is
\* written twice
LiteralsOf(kind) ==
    CASE kind = "int" -> {<<"1">>, <<"4", "2">>}
      [] kind = "string" -> {<<"'", "'">>, <<"'", "a", "'">>,
                             <<"'", "a", "'", "'", "b", "'">>}
      [] kind = "uuid" -> {<<"'">> \o UuidBody \o <<"'">>,
                           <<"'">> \o OtherUuidBody \o <<"'">>}

LiteralKinds == {"int", "string", "uuid"}

\* the column of slot j: x, y, z, ...
ColumnOf(j) == <<" ", CASE j = 1 -> "x" [] j = 2 -> "y" [] j = 3 -> "z" [] OTHER -> "w", "=">>

RECURSIVE Fill(_, _)
Fill(values, n) ==
    IF n = 0 THEN <<>> ELSE Fill(values, n - 1) \o ColumnOf(n) \o values[n]

RECURSIVE Fillings(_, _)
Fillings(kinds, n) ==
    IF n = 0 THEN {<<>>}
    ELSE {Append(v, l) : v \in Fillings(kinds, n - 1), l \in LiteralsOf(kinds[n])}

LiteralPairs ==
    UNION {
        {[fn |-> "normalize_each", kind |-> "literals",
          sql |-> Fill(a, Len(kinds)), other |-> Fill(b, Len(kinds))] :
            a \in Fillings(kinds, Len(kinds)), b \in Fillings(kinds, Len(kinds))} :
        kinds \in UNION {[1..n -> LiteralKinds] : n \in 1..MaxSlots}}

\* the elements of an IN list: an integer, a string that holds a
\* parenthesis, a string that holds a quote
Elements == {<<"1">>, <<"'", "a", ")", "'">>, <<"'", "a", "'", "'", "b", "'">>}

RECURSIVE Joined(_, _)
Joined(elements, n) ==
    IF n = 1 THEN elements[1]
    ELSE Joined(elements, n - 1) \o <<",", " ">> \o elements[n]

ElementLists == UNION {[1..n -> Elements] : n \in 1..MaxElements}

InClause(keyword, blanks, elements) ==
    <<"x", " ">> \o keyword \o blanks \o <<"(">>
    \o Joined(elements, Len(elements)) \o <<")", " ", "z">>

InPairs ==
    {[fn |-> "normalize_each", kind |-> "in",
      sql |-> InClause(k, b, e1), other |-> InClause(k, b, e2)] :
        k \in {<<"I", "N">>, <<"i", "n">>}, b \in {<<>>, <<" ">>},
        e1 \in ElementLists, e2 \in ElementLists}

InitLiterals ==
    /\ pc = "call"
    /\ call \in LiteralPairs \cup InPairs
    /\ ret = None
    /\ collab = "ok"
    /\ result = NoResult
    /\ query_context = <<>>
    /\ tracker = <<>>
    /\ raised = <<>>
    /\ _instance = None
    /\ atexit = <<>>
    /\ stdout = <<>>

\* n_plus_one.py 72-74: each query of the list is normalized
NormalizeEach ==
    /\ pc = "call"
    /\ call.fn = "normalize_each"
    /\ ret' = <<normalize_query(call.sql), normalize_query(call.other)>>
    /\ pc' = "returned"
    /\ UNCHANGED <<_instance, atexit, stdout, call, collab, result, query_context, tracker, raised>>

NextLiterals == NormalizeEach

SpecLiterals == InitLiterals /\ [][NextLiterals]_vars

\* The keys of normalized_groups in insertion order: the shapes of
\* queries[1..n] in the order of their first appearance.
RECURSIVE GroupKeys(_, _)
GroupKeys(queries, n) ==
    IF n = 0 THEN <<>>
    ELSE LET before == GroupKeys(queries, n - 1)
             normalized == normalize_query(queries[n].sql)
         IN  IF \E j \in 1..Len(before) : before[j] = normalized THEN before
             ELSE Append(before, normalized)

\* normalized_groups[normalized]: the raw texts of that shape, in order
RECURSIVE GroupOf(_, _, _)
GroupOf(queries, normalized, n) ==
    IF n = 0 THEN <<>>
    ELSE LET before == GroupOf(queries, normalized, n - 1) IN
         IF normalize_query(queries[n].sql) = normalized
         THEN Append(before, queries[n].sql)
         ELSE before

InsertByCount_ties_reversed(sorted, p) ==
    LET ahead == {j \in 1..Len(sorted) : sorted[j].count > p.count}
        n == IF ahead = {} THEN 0 ELSE CHOOSE j \in ahead : \A k \in ahead : j >= k
    IN  SubSeq(sorted, 1, n) \o <<p>> \o SubSeq(sorted, n + 1, Len(sorted))

\* patterns.sort(key=count, reverse=True): stable, so p goes behind every
\* pattern whose count is not smaller
InsertByCount(sorted, p) ==
    LET ahead == {j \in 1..Len(sorted) : sorted[j].count >= p.count}
        n == IF ahead = {} THEN 0 ELSE CHOOSE j \in ahead : \A k \in ahead : j >= k
    IN  SubSeq(sorted, 1, n) \o <<p>> \o SubSeq(sorted, n + 1, Len(sorted))

RECURSIVE SortByCount(_, _)
SortByCount(patterns, n) ==
    IF n = 0 THEN <<>>
    ELSE InsertByCount(SortByCount(patterns, n - 1), patterns[n])

\* the repetition floor of detect_n_plus_one
RepetitionFloor == 3

IsRepeated_above(originals) == Len(originals) > RepetitionFloor

\* `if len(originals) >= 3`
IsRepeated(originals) == Len(originals) >= RepetitionFloor

SampleQueries_last(originals) ==
    SubSeq(originals, Max(1, Len(originals) - 2), Len(originals))

\* `originals[:3]`
SampleQueries(originals) == PyPrefix(originals, 3)

\* a group of normalized_groups with the pattern line 84 makes of it
Group(normalized, originals) ==
    [originals |-> originals,
     pattern |-> N1Pattern(normalized, Len(originals), SampleQueries(originals))]

\* normalized_groups.items(), in insertion order
Groups(queries, keys) ==
    [j \in 1..Len(keys) |-> Group(keys[j], GroupOf(queries, keys[j], Len(queries)))]

\* the patterns appended by the loop of lines 82-90
Patterns(groups) ==
    LET Repeated(g) == IsRepeated(g.originals)
        PatternOf(kept) == [j \in 1..Len(kept) |-> kept[j].pattern]
    IN  PatternOf(SelectSeq(groups, Repeated))

\* patterns.sort(key=lambda p: p.count, reverse=True)
Sorted(patterns) == SortByCount(patterns, Len(patterns))

detect_n_plus_one(queries) ==
    Sorted(Patterns(Groups(queries, GroupKeys(queries, Len(queries)))))

(***************************************************************************)
(* The inputs of detect_n_plus_one: lists of queries of two shapes, the    *)
(* first written with two literals.                                        *)
(***************************************************************************)
Letters(i) == [j \in 1..i |-> "x"]
ShapeOf(i) == Letters(i) \o <<"=", "?">>
RawOf(i, digit) == Letters(i) \o <<"=", digit>>

DetectPool == {RawOf(1, "1"), RawOf(1, "2"), RawOf(2, "1")}

Query(sql) == [sql |-> sql, time |-> 0]

QueryLists ==
    UNION {[1..n -> {Query(sql) : sql \in DetectPool}] : n \in 0..MaxBatch}

InitDetect ==
    /\ pc = "call"
    /\ call \in {[fn |-> "detect_n_plus_one", queries |-> qs] : qs \in QueryLists}
    /\ ret = None
    /\ collab = "ok"
    /\ result = NoResult
    /\ query_context = <<>>
    /\ tracker = <<>>
    /\ raised = <<>>
    /\ _instance = None
    /\ atexit = <<>>
    /\ stdout = <<>>

Detect ==
    /\ pc = "call"
    /\ call.fn = "detect_n_plus_one"
    /\ ret' = detect_n_plus_one(call.queries)
    /\ pc' = "returned"
    /\ UNCHANGED <<_instance, atexit, stdout, call, collab, result, query_context, tracker, raised>>

NextDetect == Detect

SpecDetect == InitDetect /\ [][NextDetect]_vars

(***************************************************************************)
(* monitor.py: MonitorResult and _check_thresholds                         *)
(*                                                                         *)
(* SQL text is a sequence of characters.  A message is a sequence of       *)
(* lines (the text between two "\n"); a line is its leading blanks, its    *)
(* format string, and the numbers and the SQL text formatted into it.      *)
(***************************************************************************)
Line(indent, label, nums, sql) ==
    [indent |-> indent, label |-> label, nums |-> nums, sql |-> sql]

MonitorResult ==
    [response_time_ms |-> 0, query_count |-> 0, queries |-> <<>>,
     n_plus_one_patterns |-> <<>>, thresholds |-> <<>>, used_defaults |-> FALSE,
     failures |-> <<>>, warnings |-> <<>>, test_name |-> <<>>, test_location |-> <<>>]

_truncate_sql(sql, max_length) ==
    IF Len(sql) <= max_length THEN sql
    ELSE PyPrefix(sql, max_length - 3) \o <<".", ".", ".">>

ListAppend_front(list, x) == <<x>> \o list

\* list.append(x)
ListAppend(list, x) == Append(list, x)

Exceeds_or_equals(measured, threshold) == measured >= threshold

\* `measured > threshold` of checks 1 and 2
Exceeds(measured, threshold) == measured > threshold

\* int(n1_threshold * 0.8)
warn_threshold(n1_threshold) == PyInt(n1_threshold * 8, 10)

notice_threshold_half(n1_threshold) == PyInt(n1_threshold * 5, 10)

\* max(3, int(n1_threshold * 0.5))
notice_threshold(n1_threshold) == Max(3, PyInt(n1_threshold * 5, 10))

ResponseTimeFailure(response_time_ms, threshold) ==
    <<Line(0, "Response time {:.2f}ms exceeded threshold {}ms (+{:.2f}ms over)",
           <<response_time_ms, threshold, response_time_ms - threshold>>, <<>>)>>

QueryCountFailure(query_count, threshold) ==
    <<Line(0, "Query count {} exceeded threshold {} (+{} extra queries)",
           <<query_count, threshold, query_count - threshold>>, <<>>)>>

\* "\n".join(f"      -> {_truncate_sql(q, 70)}" for q in sample_queries[:3])
ExampleLines(sample_queries) ==
    LET first == PyPrefix(sample_queries, 3) IN
    IF first = <<>> THEN <<Line(0, "", <<>>, <<>>)>>
    ELSE [i \in 1..Len(first) |-> Line(6, "-> {}", <<>>, _truncate_sql(first[i], 70))]

N1Failure(pattern, n1_threshold) ==
    <<Line(0, "N+1 pattern detected: {} similar queries (threshold: {})",
           <<pattern.count, n1_threshold>>, <<>>),
      Line(3, "Pattern: {}", <<>>, _truncate_sql(pattern.normalized_query, 80)),
      Line(3, "Examples:", <<>>, <<>>)>>
    \o ExampleLines(pattern.sample_queries)

N1Warning(pattern, n1_threshold) ==
    <<Line(0, "N+1 WARNING: {} similar queries detected (approaching threshold: {})",
           <<pattern.count, n1_threshold>>, <<>>),
      Line(3, "Pattern: {}", <<>>, _truncate_sql(pattern.normalized_query, 80)),
      Line(3, "Consider using select_related() or prefetch_related()", <<>>, <<>>)>>

N1Notice(pattern) ==
    <<Line(0, "N+1 notice: {} similar queries", <<pattern.count>>, <<>>),
      Line(3, "Pattern: {}", <<>>, _truncate_sql(pattern.normalized_query, 80))>>

\* Check 3: the loop over result.n_plus_one_patterns, from pattern i on.
RECURSIVE CheckPatterns(_, _)
CheckPatterns(r, i) ==
    IF i > Len(r.n_plus_one_patterns) THEN r
    ELSE LET pattern == r.n_plus_one_patterns[i]
             n1_threshold == r.thresholds["n_plus_one_threshold"]
         IN  IF pattern.count >= n1_threshold
             THEN CheckPatterns(
                    [r EXCEPT !.failures =
                        ListAppend(@, N1Failure(pattern, n1_threshold))], i + 1)
             ELSE IF pattern.count >= warn_threshold(n1_threshold)
             THEN CheckPatterns(
                    [r EXCEPT !.warnings =
                        ListAppend(@, N1Warning(pattern, n1_threshold))], i + 1)
             ELSE IF pattern.count >= notice_threshold(n1_threshold)
             THEN CheckPatterns(
                    [r EXCEPT !.warnings = ListAppend(@, N1Notice(pattern))], i + 1)
             ELSE CheckPatterns(r, i + 1)

_check_thresholds(r) ==
    LET thresholds == r.thresholds
        r1 == IF Exceeds(r.response_time_ms, thresholds["response_time_ms"])
              THEN [r EXCEPT !.failures =
                        ListAppend(@, ResponseTimeFailure(r.response_time_ms,
                                                          thresholds["response_time_ms"]))]
              ELSE r
        r2 == IF Exceeds(r1.query_count, thresholds["query_count"])
              THEN [r1 EXCEPT !.failures =
                        ListAppend(@, QueryCountFailure(r1.query_count,
                                                        thresholds["query_count"]))]
              ELSE r1
    IN  CheckPatterns(r2, 1)

\* The warning monitor() adds on entry when only the defaults are in use.
NoConfigWarning ==
    <<Line(0, "No MERCURY_PERFORMANCE_THRESHOLDS config found. Using defaults. Configure in settings.py or test file to remove this warning.",
           <<>>, <<>>)>>

(***************************************************************************)
(* monitor.py: _format_report.  The report is the sequence of its lines;   *)
(* a line carries the section it stands in and its colour besides what a   *)
(* message line carries.                                                   *)
(***************************************************************************)
ReportLine(section, color, line) ==
    [section |-> section, color |-> color, bullet |-> FALSE, indent |-> line.indent,
     label |-> line.label, nums |-> line.nums, sql |-> line.sql]

\* _format_duration: the unit the value is written in, with two decimals
_format_duration(ms) ==
    IF ms < 1 THEN "{:.2f}us" ELSE IF ms < 1000 THEN "{:.2f}ms" ELSE "{:.2f}s"

_format_pattern_severity_color_strict(count, threshold) ==
    IF count > threshold THEN <<"FAIL", "RED">>
    ELSE IF count >= PyInt(threshold * 8, 10) THEN <<"WARN", "YELLOW">>
    ELSE <<"INFO", "BLUE">>

_format_pattern_severity_color(count, threshold) ==
    IF count >= threshold THEN <<"FAIL", "RED">>
    ELSE IF count >= PyInt(threshold * 8, 10) THEN <<"WARN", "YELLOW">>
    ELSE <<"INFO", "BLUE">>

\* A message of the old format: one of the marks that line 458 removes and
\* a blank before its text.
MarkedLabel == "{MARK} slow query"

\* line.replace(<mark>, "") on the text of a line
Unmark(label) == IF label = MarkedLabel THEN " slow query" ELSE label

\* .strip() on the text of a line
StripLabel(label) == IF label = " slow query" THEN "slow query" ELSE label

\* line.replace(..).strip() of a message line: the marks and the blanks
\* around the text go
Strip(line) == [line EXCEPT !.indent = 0, !.label = StripLabel(Unmark(@))]

RECURSIVE BulletLines(_, _, _, _)
BulletLines_first_line(section, color, messages, n) ==
    IF n = 0 THEN <<>>
    ELSE BulletLines(section, color, messages, n - 1)
         \o <<[ReportLine(section, color, Strip(messages[n][1])) EXCEPT !.bullet = TRUE]>>

\* the lines of all messages of a list, each stripped and set behind a bullet
BulletLines(section, color, messages, n) ==
    IF n = 0 THEN <<>>
    ELSE BulletLines(section, color, messages, n - 1)
         \o [j \in 1..Len(messages[n]) |->
                [ReportLine(section, color, Strip(messages[n][j]))
                    EXCEPT !.bullet = TRUE]]

RECURSIVE PatternLines(_, _)
PatternLines(r, n) ==
    IF n = 0 THEN <<>>
    ELSE LET pattern == r.n_plus_one_patterns[n]
             severity == _format_pattern_severity_color(
                            pattern.count, r.thresholds["n_plus_one_threshold"])
             samples == PyPrefix(pattern.sample_queries, 3)
         IN  PatternLines(r, n - 1)
             \o <<ReportLine("patterns", severity[2],
                    Line(3, severity[1], <<pattern.count>>,
                         _truncate_sql(pattern.normalized_query, 70)))>>
             \o [j \in 1..Len(samples) |->
                    ReportLine("patterns", "DIM",
                        Line(6, "-> {}", <<>>, _truncate_sql(samples[j], 65)))]

_format_report(r) ==
    LET text(section, color, label) ==
            <<ReportLine(section, color, Line(0, label, <<>>, <<>>))>>
        time_color == IF r.response_time_ms <= r.thresholds["response_time_ms"]
                      THEN "GREEN" ELSE "RED"
        query_color == IF r.query_count <= r.thresholds["query_count"]
                       THEN "GREEN" ELSE "RED"
    IN  text("header", "BOLD", "=") \o text("header", "CYAN", "MERCURY PERFORMANCE REPORT")
        \o text("header", "BOLD", "=")
        \o (IF r.test_name # <<>> \/ r.test_location # <<>>
            THEN text("test", "", "")
                 \o (IF r.test_name # <<>>
                     THEN <<ReportLine("test", "BLUE", Line(0, "Test: {}", <<>>, r.test_name))>>
                     ELSE <<>>)
                 \o (IF r.test_location # <<>>
                     THEN <<ReportLine("test", "CYAN",
                                Line(0, "Location: {}", <<>>, r.test_location))>>
                     ELSE <<>>)
            ELSE <<>>)
        \o text("metrics", "BOLD", "METRICS:")
        \o <<ReportLine("metrics", time_color,
                Line(3, "Response time: {} (threshold: {})",
                     <<r.response_time_ms, r.thresholds["response_time_ms"]>>,
                     <<_format_duration(r.response_time_ms),
                       _format_duration(r.thresholds["response_time_ms"])>>)),
             ReportLine("metrics", query_color,
                Line(3, "Query count:   {} (threshold: {})",
                     <<r.query_count, r.thresholds["query_count"]>>, <<>>))>>
        \o (IF r.n_plus_one_patterns # <<>>
            THEN text("patterns", "YELLOW", "N+1 PATTERNS DETECTED:")
                 \o PatternLines(r, Len(r.n_plus_one_patterns))
            ELSE text("patterns", "GREEN", "No N+1 patterns detected"))
        \o (IF r.warnings # <<>>
            THEN text("warnings", "YELLOW", "WARNINGS:")
                 \o BulletLines("warnings", "YELLOW", r.warnings, Len(r.warnings))
            ELSE <<>>)
        \o (IF r.failures # <<>>
            THEN text("failures", "RED", "FAILURES:")
                 \o BulletLines("failures", "RED", r.failures, Len(r.failures))
            ELSE <<>>)
        \o (IF r.used_defaults
            THEN text("config", "DIM", "Using default thresholds (no config found)")
            ELSE <<>>)
        \o text("footer", "BOLD", "=")

(***************************************************************************)
(* The inputs of _check_thresholds.  Pattern i of a list has its own       *)
(* shape, i letters x followed by "=?", as the groups of a detection have. *)
(***************************************************************************)
SamplesOf(i) == <<RawOf(i, "1"), RawOf(i, "2"), RawOf(i, "3")>>

RECURSIVE PatternLists(_)
PatternLists(n) ==
    IF n = 0 THEN {<<>>}
    ELSE {Append(s, N1Pattern(ShapeOf(n), c, SamplesOf(n))) :
            s \in PatternLists(n - 1), c \in 0..MaxCount}

\* the limit the measures are compared to: they fall below, on and above it
MeasureLimit == MaxMeasure - 1

\* Every count against every threshold for a single pattern; every list of
\* counts against the threshold MaxCount for longer lists.
PatternCases ==
    {<<n1, ps>> : n1 \in (0 - 3)..MaxCount,
                  ps \in PatternLists(0) \cup PatternLists(1)}
    \cup {<<MaxCount, ps>> : ps \in UNION {PatternLists(n) : n \in 2..MaxPatterns}}

CheckInputs ==
    {[MonitorResult EXCEPT
        !.response_time_ms = t, !.query_count = q, !.n_plus_one_patterns = c[2],
        !.thresholds = [response_time_ms |-> MeasureLimit, query_count |-> MeasureLimit,
                        n_plus_one_threshold |-> c[1]],
        !.used_defaults = d,
        !.warnings = IF d THEN <<NoConfigWarning>> ELSE <<>>] :
        t \in 0..MaxMeasure, q \in 0..MaxMeasure, d \in BOOLEAN, c \in PatternCases}

InitCheck ==
    /\ pc = "call"
    /\ call \in {[fn |-> "_check_thresholds", result |-> r] : r \in CheckInputs}
    /\ ret = None
    /\ collab = "ok"
    /\ result = NoResult
    /\ query_context = <<>>
    /\ tracker = <<>>
    /\ raised = <<>>
    /\ _instance = None
    /\ atexit = <<>>
    /\ stdout = <<>>

Check ==
    /\ pc = "call"
    /\ call.fn = "_check_thresholds"
    /\ ret' = _check_thresholds(call.result)
    /\ pc' = "returned"
    /\ UNCHANGED <<_instance, atexit, stdout, call, collab, result, query_context, tracker, raised>>

NextCheck == Check

SpecCheck == InitCheck /\ [][NextCheck]_vars

(***************************************************************************)
(* The text of a message and of a report, as sequences of atoms: a blank,  *)
(* a line break, a colour code, the bullet, or the text of a line.         *)
(***************************************************************************)
Atom(kind, line) == [kind |-> kind, label |-> line.label, nums |-> line.nums, sql |-> line.sql]
Mark(kind) == Atom(kind, Line(0, "", <<>>, <<>>))
Blanks(n) == [j \in 1..n |-> Mark("blank")]

\* a message: its lines, joined by "\n"
RECURSIVE MessageText(_, _)
MessageText(message, n) ==
    IF n = 0 THEN <<>>
    ELSE (IF n = 1 THEN <<>> ELSE MessageText(message, n - 1) \o <<Mark("newline")>>)
         \o Blanks(message[n].indent) \o <<Atom("text", message[n])>>

\* f"   {colour}<bullet>{RESET} {line}" for a bullet line; the other lines
\* carry their colour before their text
ReportLineText(b) ==
    IF b.bullet
    THEN Blanks(3) \o <<Mark(b.color), Mark("bullet"), Mark("RESET")>> \o Blanks(1)
         \o <<Atom("text", b)>>
    ELSE Blanks(b.indent) \o <<Mark(b.color), Atom("text", b), Mark("RESET")>>

\* "\n".join(lines)
RECURSIVE ReportText(_, _)
ReportText(report, n) ==
    IF n = 0 THEN <<>>
    ELSE (IF n = 1 THEN <<>> ELSE ReportText(report, n - 1) \o <<Mark("newline")>>)
         \o ReportLineText(report[n])

(***************************************************************************)
(* The inputs of _format_report: the results _check_thresholds leaves,     *)
(* with or without a warning of the old format.                            *)
(***************************************************************************)
LegacyWarning == <<Line(0, MarkedLabel, <<>>, <<>>)>>

ReportInputs ==
    {LET checked == _check_thresholds(
                        [MonitorResult EXCEPT
                            !.response_time_ms = t, !.query_count = t,
                            !.n_plus_one_patterns = c[2],
                            !.thresholds = [response_time_ms |-> MeasureLimit,
                                            query_count |-> MeasureLimit,
                                            n_plus_one_threshold |-> c[1]],
                            !.used_defaults = d,
                            !.warnings = IF d THEN <<NoConfigWarning>> ELSE <<>>])
     IN  IF legacy THEN [checked EXCEPT !.warnings = ListAppend(@, LegacyWarning)]
         ELSE checked :
        t \in {0, MaxMeasure}, d \in BOOLEAN, legacy \in BOOLEAN, c \in PatternCases}

InitReport ==
    /\ pc = "call"
    /\ call \in {[fn |-> "_format_report", result |-> r] : r \in ReportInputs}
    /\ ret = None
    /\ collab = "ok"
    /\ result = NoResult
    /\ query_context = <<>>
    /\ tracker = <<>>
    /\ raised = <<>>
    /\ _instance = None
    /\ atexit = <<>>
    /\ stdout = <<>>

Report ==
    /\ pc = "call"
    /\ call.fn = "_format_report"
    /\ ret' = _format_report(call.result)
    /\ pc' = "returned"
    /\ UNCHANGED <<_instance, atexit, stdout, call, collab, result, query_context, tracker, raised>>

NextReport == Report

SpecReport == InitReport /\ [][NextReport]_vars

(***************************************************************************)
(* The inputs of _truncate_sql: texts of at most MaxSqlLen characters and  *)
(* maximum lengths from below zero to beyond the longest text.             *)
(***************************************************************************)
SqlTexts == UNION {[1..n -> {"a", "."}] : n \in 0..MaxSqlLen}

InitTruncate ==
    /\ pc = "call"
    /\ call \in {[fn |-> "_truncate_sql", sql |-> t, max_length |-> m] :
                    t \in SqlTexts, m \in (0 - 2)..(MaxSqlLen + 1)}
    /\ ret = None
    /\ collab = "ok"
    /\ result = NoResult
    /\ query_context = <<>>
    /\ tracker = <<>>
    /\ raised = <<>>
    /\ _instance = None
    /\ atexit = <<>>
    /\ stdout = <<>>

Truncate ==
    /\ pc = "call"
    /\ call.fn = "_truncate_sql"
    /\ ret' = _truncate_sql(call.sql, call.max_length)
    /\ pc' = "returned"
    /\ UNCHANGED <<_instance, atexit, stdout, call, collab, result, query_context, tracker, raised>>

NextTruncate == Truncate

SpecTruncate == InitTruncate /\ [][NextTruncate]_vars

(***************************************************************************)
(* export.py: export_html.  The page is the record of the values that are  *)
(* put into HTML_TEMPLATE.                                                 *)
(***************************************************************************)
MetricClass_strict(value, threshold) == IF value < threshold THEN "pass" ELSE "fail"

\* "pass" if value <= threshold else "fail"
MetricClass(value, threshold) == IF value <= threshold THEN "pass" ELSE "fail"

\* export.py 397-403
HtmlSeverity(count, threshold) ==
    IF count >= threshold THEN "FAILURE"
    ELSE IF count >= PyInt(threshold * 8, 10) THEN "WARNING"
    ELSE "NOTICE"

\* one entry per pattern: its severity, its count, its shape and its samples
_format_n_plus_one_html(r) ==
    [j \in 1..Len(r.n_plus_one_patterns) |->
        LET pattern == r.n_plus_one_patterns[j] IN
        [severity |-> HtmlSeverity(pattern.count, r.thresholds["n_plus_one_threshold"]),
         count |-> pattern.count,
         normalized_query |-> pattern.normalized_query,
         sample_queries |-> PyPrefix(pattern.sample_queries, 3)]]

export_html(r) ==
    [test_name |-> IF r.test_name # <<>> THEN r.test_name ELSE <<"Unknown Test">>,
     test_location |-> IF r.test_location # <<>> THEN r.test_location
                       ELSE <<"Unknown Location">>,
     status |-> IF r.failures = <<>> THEN "PASSED" ELSE "FAILED",
     status_class |-> IF r.failures = <<>> THEN "pass" ELSE "fail",
     response_time |-> r.response_time_ms,
     time_threshold |-> r.thresholds["response_time_ms"],
     time_class |-> MetricClass(r.response_time_ms, r.thresholds["response_time_ms"]),
     query_count |-> r.query_count,
     query_threshold |-> r.thresholds["query_count"],
     query_class |-> MetricClass(r.query_count, r.thresholds["query_count"]),
     n_plus_one_section |-> _format_n_plus_one_html(r),
     warnings_section |-> r.warnings,
     failures_section |-> r.failures]

(***************************************************************************)
(* The two renderings of the results _check_thresholds leaves.             *)
(***************************************************************************)
InitExport ==
    /\ pc = "call"
    /\ call \in {[fn |-> "render", result |-> _check_thresholds(r)] : r \in CheckInputs}
    /\ ret = None
    /\ collab = "ok"
    /\ result = NoResult
    /\ query_context = <<>>
    /\ tracker = <<>>
    /\ raised = <<>>
    /\ _instance = None
    /\ atexit = <<>>
    /\ stdout = <<>>

\* result.explain() and result.to_html(): _format_report and export_html
Render ==
    /\ pc = "call"
    /\ call.fn = "render"
    /\ ret' = [text |-> _format_report(call.result), html |-> export_html(call.result)]
    /\ pc' = "returned"
    /\ UNCHANGED <<_instance, atexit, stdout, call, collab, result, query_context, tracker, raised>>

NextExport == Render

SpecExport == InitExport /\ [][NextExport]_vars

(***************************************************************************)
(* export.py: the sections of the summary page.  A list of results is a    *)
(* sequence of pairs <<test_name, result>>.                                *)
(***************************************************************************)
InsertByTime_ties_reversed(sorted, e) ==
    LET ahead == {j \in 1..Len(sorted) :
                    sorted[j][2].response_time_ms > e[2].response_time_ms}
        n == IF ahead = {} THEN 0 ELSE CHOOSE j \in ahead : \A k \in ahead : j >= k
    IN  SubSeq(sorted, 1, n) \o <<e>> \o SubSeq(sorted, n + 1, Len(sorted))

\* sorted(results, key=response_time_ms, reverse=True): stable, so e goes
\* behind every pair whose time is not smaller
InsertByTime(sorted, e) ==
    LET ahead == {j \in 1..Len(sorted) :
                    sorted[j][2].response_time_ms >= e[2].response_time_ms}
        n == IF ahead = {} THEN 0 ELSE CHOOSE j \in ahead : \A k \in ahead : j >= k
    IN  SubSeq(sorted, 1, n) \o <<e>> \o SubSeq(sorted, n + 1, Len(sorted))

RECURSIVE SortByTime(_, _)
SortByTime(results, n) ==
    IF n = 0 THEN <<>>
    ELSE InsertByTime(SortByTime(results, n - 1), results[n])

\* one list item per pair of top_10
SlowestItems(top_10) ==
    [k \in 1..Len(top_10) |->
        [test_name |-> top_10[k][1],
         has_failures |-> IF top_10[k][2].failures # <<>> THEN "fail" ELSE "pass",
         response_time_ms |-> top_10[k][2].response_time_ms,
         query_count |-> top_10[k][2].query_count,
         has_n1 |-> top_10[k][2].n_plus_one_patterns # <<>>]]

_format_slowest_section(results) ==
    SlowestItems(PyPrefix(SortByTime(results, Len(results)), 10))

MergeEntry_last_count(entry, test_name, pattern) ==
    [entry EXCEPT !.count = pattern.count, !.test_names = Append(@, test_name)]

\* export.py 944-945: the count is added, the test name appended
MergeEntry(entry, test_name, pattern) ==
    [entry EXCEPT !.count = @ + pattern.count, !.test_names = Append(@, test_name)]

\* export.py 940-945: pattern_map, in the order of its keys' insertion
AddPattern(pattern_map, test_name, pattern) ==
    LET at == {j \in 1..Len(pattern_map) :
                    pattern_map[j].query = pattern.normalized_query}
    IN  IF at = {}
        THEN Append(pattern_map,
                    [query |-> pattern.normalized_query, count |-> pattern.count,
                     test_names |-> <<test_name>>,
                     samples |-> PyPrefix(pattern.sample_queries, 2)])
        ELSE [j \in 1..Len(pattern_map) |->
                IF j \in at THEN MergeEntry(pattern_map[j], test_name, pattern)
                ELSE pattern_map[j]]

RECURSIVE AddPatterns(_, _, _, _)
AddPatterns(pattern_map, test_name, patterns, n) ==
    IF n = 0 THEN pattern_map
    ELSE AddPattern(AddPatterns(pattern_map, test_name, patterns, n - 1),
                    test_name, patterns[n])

RECURSIVE PatternMap(_, _)
PatternMap(results, n) ==
    IF n = 0 THEN <<>>
    ELSE AddPatterns(PatternMap(results, n - 1), results[n][1],
                     results[n][2].n_plus_one_patterns,
                     Len(results[n][2].n_plus_one_patterns))

\* sorted(pattern_map.items(), key=total count, reverse=True)
InsertByTotal(sorted, e) ==
    LET ahead == {j \in 1..Len(sorted) : sorted[j].count >= e.count}
        n == IF ahead = {} THEN 0 ELSE CHOOSE j \in ahead : \A k \in ahead : j >= k
    IN  SubSeq(sorted, 1, n) \o <<e>> \o SubSeq(sorted, n + 1, Len(sorted))

RECURSIVE SortByTotal(_, _)
SortByTotal(pattern_map, n) ==
    IF n = 0 THEN <<>>
    ELSE InsertByTotal(SortByTotal(pattern_map, n - 1), pattern_map[n])

\* set(test_names)
NamesIn(test_names) == {test_names[j] : j \in 1..Len(test_names)}

\* unique_tests[:5]: a set is listed in no order the program chooses, so
\* any five of its names can be the first five
ShownTests(unique_tests) ==
    {shown \in SUBSET unique_tests :
        Cardinality(shown) = IF Cardinality(unique_tests) > 5 THEN 5
                             ELSE Cardinality(unique_tests)}

SummaryItem(entry, unique_tests, shown) ==
    [count |-> entry.count,
     tests |-> Cardinality(unique_tests),
     query |-> IF Len(entry.query) <= 150 THEN entry.query
               ELSE PyPrefix(entry.query, 150) \o <<".", ".", ".">>,
     samples |-> PyPrefix(entry.samples, 1),
     shown |-> shown,
     more |-> IF Cardinality(unique_tests) > 5 THEN Cardinality(unique_tests) - 5 ELSE 0]

\* the lists of items the loop of lines 961-987 can build
RECURSIVE ItemLists(_, _)
ItemLists(sorted_patterns, n) ==
    IF n = 0 THEN {<<>>}
    ELSE {Append(items, SummaryItem(sorted_patterns[n],
                                    NamesIn(sorted_patterns[n].test_names), shown)) :
            items \in ItemLists(sorted_patterns, n - 1),
            shown \in ShownTests(NamesIn(sorted_patterns[n].test_names))}

SummaryCards(pattern_map, top_15) ==
    {[found |-> Len(pattern_map), items |-> items] :
        items \in ItemLists(top_15, Len(top_15))}

\* the renderings _format_n_plus_one_summary can return
PatternCards(pattern_map) ==
    SummaryCards(pattern_map, PyPrefix(SortByTotal(pattern_map, Len(pattern_map)), 15))

_format_n_plus_one_summary(results) == PatternCards(PatternMap(results, Len(results)))

(***************************************************************************)
(* The inputs of _format_slowest_section: lists of results whose times lie *)
(* on and above the limit, each under its own test name.                   *)
(***************************************************************************)
NameOf(i) == <<"t", "e", "s", "t", "_">> \o Repeat(i, "x")

Timed(t) ==
    _check_thresholds(
        [MonitorResult EXCEPT
            !.response_time_ms = t,
            !.thresholds = [response_time_ms |-> MeasureLimit,
                            query_count |-> MeasureLimit,
                            n_plus_one_threshold |-> MaxCount]])

RankedLists(longest) ==
    UNION {{[i \in 1..n |-> <<NameOf(i), Timed(times[i])>>] :
                times \in [1..n -> {MeasureLimit, MeasureLimit + 1}]} :
           n \in 0..longest}

InitSlowest ==
    /\ pc = "call"
    /\ call \in {[fn |-> "_format_slowest_section", results |-> l] :
                    l \in RankedLists(MaxRanked)}
    /\ ret = None
    /\ collab = "ok"
    /\ result = NoResult
    /\ query_context = <<>>
    /\ tracker = <<>>
    /\ raised = <<>>
    /\ _instance = None
    /\ atexit = <<>>
    /\ stdout = <<>>

Slowest ==
    /\ pc = "call"
    /\ call.fn = "_format_slowest_section"
    /\ ret' = _format_slowest_section(call.results)
    /\ pc' = "returned"
    /\ UNCHANGED <<_instance, atexit, stdout, call, collab, result, query_context, tracker, raised>>

NextSlowest == Slowest

SpecSlowest == InitSlowest /\ [][NextSlowest]_vars

(***************************************************************************)
(* The inputs of _format_n_plus_one_summary: result i stands under its own *)
(* test name or under the name of the first, with no pattern, with a       *)
(* pattern of the first shape, or with patterns of both shapes.            *)
(***************************************************************************)
WithPatterns(patterns) == [MonitorResult EXCEPT !.n_plus_one_patterns = patterns]

SummaryPairs(i) ==
    {<<NameOf(i), WithPatterns(<<>>)>>,
     <<NameOf(i), WithPatterns(<<N1Pattern(ShapeOf(1), 3, SamplesOf(1))>>)>>,
     <<NameOf(1), WithPatterns(<<N1Pattern(ShapeOf(1), 4, SamplesOf(1))>>)>>,
     <<NameOf(i), WithPatterns(<<N1Pattern(ShapeOf(2), 5, SamplesOf(2)),
                                 N1Pattern(ShapeOf(1), 3, SamplesOf(1))>>)>>}

RECURSIVE SummaryLists(_)
SummaryLists(n) ==
    IF n = 0 THEN {<<>>}
    ELSE LET shorter == SummaryLists(n - 1) IN
         shorter \cup {Append(l, e) : l \in {x \in shorter : Len(x) = n - 1},
                                      e \in SummaryPairs(n)}

InitPatternSummary ==
    /\ pc = "call"
    /\ call \in {[fn |-> "_format_n_plus_one_summary", results |-> l] :
                    l \in SummaryLists(MaxTests)}
    /\ ret = None
    /\ collab = "ok"
    /\ result = NoResult
    /\ query_context = <<>>
    /\ tracker = <<>>
    /\ raised = <<>>
    /\ _instance = None
    /\ atexit = <<>>
    /\ stdout = <<>>

PatternSummary ==
    /\ pc = "call"
    /\ call.fn = "_format_n_plus_one_summary"
    /\ ret' \in _format_n_plus_one_summary(call.results)
    /\ pc' = "returned"
    /\ UNCHANGED <<_instance, atexit, stdout, call, collab, result, query_context, tracker, raised>>

NextPatternSummary == PatternSummary

SpecPatternSummary == InitPatternSummary /\ [][NextPatternSummary]_vars

\* one entry per result, with what the page tells of it
AllTestsItems(results) ==
    [k \in 1..Len(results) |->
        [test_name |-> results[k][1],
         has_failures |-> IF results[k][2].failures # <<>> THEN "fail" ELSE "pass",
         has_n1 |-> results[k][2].n_plus_one_patterns # <<>>,
         response_time_ms |-> results[k][2].response_time_ms,
         time_threshold |-> results[k][2].thresholds["response_time_ms"],
         query_count |-> results[k][2].query_count,
         query_threshold |-> results[k][2].thresholds["query_count"],
         location |-> IF results[k][2].test_location # <<>>
                      THEN results[k][2].test_location ELSE <<"N/A">>,
         n1_list |-> [j \in 1..Len(PyPrefix(results[k][2].n_plus_one_patterns, 3)) |->
                        [count |-> results[k][2].n_plus_one_patterns[j].count,
                         query |-> PyPrefix(
                                    results[k][2].n_plus_one_patterns[j].normalized_query,
                                    100)]],
         failures |-> results[k][2].failures]]

_format_all_tests_section(results) == [tests |-> Len(results), items |-> AllTestsItems(results)]

RECURSIVE SumOf(_, _)
SumOf(numbers, n) == IF n = 0 THEN 0 ELSE SumOf(numbers, n - 1) + numbers[n]

\* statistics.mean as the fraction <<sum, number>>
Mean(numbers) == <<SumOf(numbers, Len(numbers)), Len(numbers)>>

Passed(results) == Cardinality({k \in 1..Len(results) : results[k][2].failures = <<>>})

TimesOf(results) == [k \in 1..Len(results) |-> results[k][2].response_time_ms]
QueryCountsOf(results) == [k \in 1..Len(results) |-> results[k][2].query_count]

\* the pages export_summary_html can write at the time now
SummaryPages(results, now, cards) ==
    {[timestamp |-> now,
      total_tests |-> Len(results),
      passed_tests |-> Passed(results),
      failed_tests |-> Len(results) - Passed(results),
      pass_percent |-> <<Passed(results) * 100, Len(results)>>,
      fail_percent |-> <<(Len(results) - Passed(results)) * 100, Len(results)>>,
      avg_time |-> Mean(TimesOf(results)),
      avg_queries |-> Mean(QueryCountsOf(results)),
      slowest_section |-> _format_slowest_section(results),
      n_plus_one_section |-> <<card>>,
      all_tests_section |-> _format_all_tests_section(results)] : card \in cards}

export_summary_html(results, now) ==
    IF results = <<>>
    THEN {[timestamp |-> now, total_tests |-> 0, passed_tests |-> 0, failed_tests |-> 0,
           pass_percent |-> <<0, 1>>, fail_percent |-> <<0, 1>>,
           avg_time |-> <<0, 1>>, avg_queries |-> <<0, 1>>,
           slowest_section |-> <<>>, n_plus_one_section |-> <<>>,
           all_tests_section |-> [tests |-> 0, items |-> <<>>]]}
    ELSE SummaryPages(results, now, _format_n_plus_one_summary(results))

(***************************************************************************)
(* summary.py: print_summary.                                              *)
(***************************************************************************)
\* sorted(numbers)
InsertNumber(sorted, x) ==
    LET ahead == {j \in 1..Len(sorted) : sorted[j] <= x}
        n == IF ahead = {} THEN 0 ELSE CHOOSE j \in ahead : \A k \in ahead : j >= k
    IN  SubSeq(sorted, 1, n) \o <<x>> \o SubSeq(sorted, n + 1, Len(sorted))

RECURSIVE SortNumbers(_, _)
SortNumbers(numbers, n) ==
    IF n = 0 THEN <<>> ELSE InsertNumber(SortNumbers(numbers, n - 1), numbers[n])

\* statistics.median of sorted numbers, as a fraction
MedianOfSorted(sorted) ==
    IF Len(sorted) % 2 = 1 THEN <<sorted[(Len(sorted) + 1) \div 2], 1>>
    ELSE <<sorted[Len(sorted) \div 2] + sorted[Len(sorted) \div 2 + 1], 2>>

Median(numbers) == MedianOfSorted(SortNumbers(numbers, Len(numbers)))

\* thresholds.get(key, float("inf")) is exceeded
OverLimit(r, measured, key) ==
    key \in DOMAIN r.thresholds /\ measured > r.thresholds[key]

SlowestLines(top_5) ==
    [k \in 1..Len(top_5) |->
        [rank |-> k, test_name |-> top_5[k][1],
         response_time_ms |-> top_5[k][2].response_time_ms,
         query_count |-> top_5[k][2].query_count,
         n1_indicator |-> top_5[k][2].n_plus_one_patterns # <<>>]]

SummaryText(results) ==
    [total |-> Len(results),
     passed |-> Passed(results),
     failed |-> Len(results) - Passed(results),
     slowest |-> SlowestLines(PyPrefix(SortByTime(results, Len(results)), 5)),
     n1_count |-> Cardinality({k \in 1..Len(results) :
                                results[k][2].n_plus_one_patterns # <<>>}),
     time_exceeded |-> Cardinality({k \in 1..Len(results) :
                                OverLimit(results[k][2], results[k][2].response_time_ms,
                                          "response_time_ms")}),
     query_exceeded |-> Cardinality({k \in 1..Len(results) :
                                OverLimit(results[k][2], results[k][2].query_count,
                                          "query_count")}),
     avg_time |-> Mean(TimesOf(results)),
     median_time |-> Median(TimesOf(results)),
     avg_queries |-> Mean(QueryCountsOf(results)),
     median_queries |-> Median(QueryCountsOf(results))]

\* what print_summary prints: nothing without results or when the
\* environment holds MERCURY_NO_SUMMARY with one of the four values
print_summary(results, no_summary) ==
    IF results = <<>> THEN <<>>
    ELSE IF no_summary \in {"1", "true", "yes", "on"} THEN <<>>
    ELSE <<SummaryText(results)>>

(***************************************************************************)
(* monitor.py: monitor(), one session.                                     *)
(*                                                                         *)
(* pc: start -> configured -> entered -> capture -> body -> exit_measure -> exit_check   *)
(*     -> exit_record -> exit_raise -> done, or failed when an exception   *)
(*     other than the verdict's leaves the session.                        *)
(***************************************************************************)
LowerOf(c) ==
    CASE c = "A" -> "a" [] c = "B" -> "b" [] c = "C" -> "c" [] c = "D" -> "d"
      [] c = "E" -> "e" [] c = "F" -> "f" [] c = "G" -> "g" [] c = "H" -> "h"
      [] c = "I" -> "i" [] c = "J" -> "j" [] c = "K" -> "k" [] c = "L" -> "l"
      [] c = "M" -> "m" [] c = "N" -> "n" [] c = "O" -> "o" [] c = "P" -> "p"
      [] c = "Q" -> "q" [] c = "R" -> "r" [] c = "S" -> "s" [] c = "T" -> "t"
      [] c = "U" -> "u" [] c = "V" -> "v" [] c = "W" -> "w" [] c = "X" -> "x"
      [] c = "Y" -> "y" [] c = "Z" -> "z" [] OTHER -> c

Lower(s) == [j \in 1..Len(s) |-> LowerOf(s[j])]
StartsWith(s, prefix) ==
    Len(prefix) <= Len(s) /\ SubSeq(s, 1, Len(prefix)) = prefix
Contains(s, part) ==
    \E j \in 1..(Len(s) - Len(part) + 1) : SubSeq(s, j, j + Len(part) - 1) = part

\* func_name.startswith('test_') or '_test_' in func_name.lower()
IsTestMethod(func_name) ==
    \/ StartsWith(func_name, <<"t", "e", "s", "t", "_">>)
    \/ Contains(Lower(func_name), <<"_", "t", "e", "s", "t", "_">>)

\* The walk of monitor() over stack[1:] for the test method, from frame i
\* on: <<test_name, test_location>> of the first frame that is one.
RECURSIVE CaptureTest(_, _)
CaptureTest(frames, i) ==
    IF i > Len(frames) THEN <<(<<>>), (<<>>)>>
    ELSE LET f == frames[i] IN
         IF IsTestMethod(f.func_name)
         THEN <<IF f.self_class # <<>> THEN f.self_class \o <<".">> \o f.func_name
                ELSE f.func_name,
                f.location>>
         ELSE CaptureTest(frames, i + 1)

\* The frames between the caller and resolve_thresholds: contextlib's
\* __enter__, which runs the generator, and monitor() itself.
ContextlibFrame ==
    [module |-> TRUE, config |-> None, func_name |-> <<"_", "_", "e", "n", "t", "e", "r", "_", "_">>,
     self_class |-> <<"C", "M">>, location |-> <<"c", ":", "1">>]
MonitorFrame ==
    [module |-> TRUE, config |-> None,
     func_name |-> <<"m", "o", "n", "i", "t", "o", "r">>,
     self_class |-> <<>>, location |-> <<"m", ":", "2">>]

Exception(type, report) == [type |-> type, report |-> report]

\* The code of the callers' frames: the function's name, the class of its
\* self, its place in the source.
FuncNames ==
    {<<"t", "e", "s", "t", "_", "a">>, <<"r", "u", "n", "_", "T", "e", "s", "t", "_", "b">>,
     <<"h", "e", "l", "p">>}
SelfClasses == {<<>>, <<"T", "C">>}

CodeFramesAt(i) ==
    {[func_name |-> n, self_class |-> c,
      location |-> <<"t", ".", "p", "y", ":">> \o Repeat(i, "1")] :
        n \in FuncNames, c \in SelfClasses}

RECURSIVE CodeSeqs(_)
CodeSeqs(n) ==
    IF n = 0 THEN {<<>>}
    ELSE {Append(s, f) : s \in CodeSeqs(n - 1), f \in CodeFramesAt(n)}

\* inspect.stack() as monitor() reads it
CodeStacks ==
    {[raises |-> TRUE, frames |-> <<>>]}
    \cup {[raises |-> FALSE, frames |-> s] :
            s \in UNION {CodeSeqs(n) : n \in 1..MaxCallers}}

\* What the settings layer can hold given the state of Django.
SettingsWhen(django) ==
    IF django = "ok" THEN Configs(SettingsValue) ELSE {[kind |-> "raises"]}

\* The raw queries a body issues.
QueryPool == {RawOf(1, "1"), RawOf(1, "2")}

Init ==
    /\ pc = "start"
    /\ call = NoCall
    /\ ret = None
    /\ collab \in {"ok", "missing", "unconfigured"}
    /\ result = NoResult
    /\ query_context = <<>>
    /\ tracker = <<>>
    /\ raised = <<>>
    /\ _instance = None
    /\ atexit = <<>>
    /\ stdout = <<>>

\* monitor.py 199-202: the result is made and the thresholds are resolved.
\* resolve_thresholds reads the stack on its own: the frames of monitor()
\* and of contextlib's __enter__ come before the callers'.
Configure ==
    /\ pc = "start"
    /\ \E inline_overrides \in Mappings(InlineValue), settings \in SettingsWhen(collab),
          stack \in StacksUpTo(MaxCallers) :
        LET resolved == resolve_thresholds(
                            inline_overrides, settings,
                            [stack EXCEPT !.frames = <<MonitorFrame, ContextlibFrame>> \o @])
        IN  result' = [MonitorResult EXCEPT
                            !.thresholds = resolved.thresholds,
                            !.used_defaults = resolved.used_defaults]
    /\ pc' = "configured"
    /\ UNCHANGED <<_instance, atexit, stdout, call, ret, collab, query_context, tracker, raised>>

\* monitor.py 205-238: the test is looked up in the stack and the warning
\* about defaults is added.
CaptureContext ==
    /\ pc = "configured"
    /\ \E stack \in CodeStacks :
        IF stack.raises
        THEN /\ result' = result
             /\ raised' = Append(raised, Exception("InspectError", <<>>))
             /\ pc' = "failed"
        ELSE LET test == CaptureTest(<<ContextlibFrame>> \o stack.frames, 1) IN
             /\ result' = [result EXCEPT
                                !.test_name = test[1],
                                !.test_location = test[2],
                                !.warnings = IF result.used_defaults
                                             THEN ListAppend(@, NoConfigWarning) ELSE @]
             /\ raised' = raised
             /\ pc' = "entered"
    /\ UNCHANGED <<_instance, atexit, stdout, call, ret, collab, query_context, tracker>>

\* monitor.py 241-251: the clock is started and Django is imported.
ImportCollaborators_swallowed ==
    /\ pc = "entered"
    /\ raised' = raised
    /\ pc' = "capture"
    /\ UNCHANGED <<_instance, atexit, stdout, call, ret, collab, result, query_context, tracker>>

ImportCollaborators ==
    /\ pc = "entered"
    /\ IF collab = "missing"
       THEN /\ raised' = Append(raised, Exception("ImportError", <<>>))
            /\ pc' = "failed"
       ELSE /\ raised' = raised
            /\ pc' = "capture"
    /\ UNCHANGED <<_instance, atexit, stdout, call, ret, collab, result, query_context, tracker>>

\* monitor.py 253: CaptureQueriesContext is entered; it needs a configured
\* connection.
OpenCapture ==
    /\ pc = "capture"
    /\ IF collab = "unconfigured"
       THEN /\ raised' = Append(raised, Exception("ImproperlyConfigured", <<>>))
            /\ pc' = "failed"
       ELSE /\ raised' = raised
            /\ pc' = "body"
    /\ query_context' = <<>>
    /\ UNCHANGED <<_instance, atexit, stdout, call, ret, collab, result, tracker>>

\* monitor.py 254: the body issues a query.
BodyQuery ==
    /\ pc = "body"
    /\ Len(query_context) < MaxQueries
    /\ \E sql \in QueryPool :
        query_context' = Append(query_context, [sql |-> sql, time |-> 0])
    /\ UNCHANGED <<_instance, atexit, stdout, pc, call, ret, collab, result, tracker, raised>>

\* monitor.py 254: the body returns.
BodyReturns ==
    /\ pc = "body"
    /\ pc' = "exit_measure"
    /\ UNCHANGED <<_instance, atexit, stdout, call, ret, collab, result, query_context, tracker, raised>>

BodyRaises_finally ==
    /\ pc = "body"
    /\ raised' = Append(raised, Exception("BodyError", <<>>))
    /\ pc' = "exit_measure"
    /\ UNCHANGED <<_instance, atexit, stdout, call, ret, collab, result, query_context, tracker>>

\* monitor.py 254: the body raises; the generator is left at the yield.
BodyRaises ==
    /\ pc = "body"
    /\ raised' = Append(raised, Exception("BodyError", <<>>))
    /\ pc' = "failed"
    /\ UNCHANGED <<_instance, atexit, stdout, call, ret, collab, result, query_context, tracker>>

\* monitor.py 256-264: the metrics are stored and the patterns detected.
ExitMeasure ==
    /\ pc = "exit_measure"
    /\ \E elapsed_ms \in 0..MaxMeasure :
        result' = [result EXCEPT
                        !.response_time_ms = elapsed_ms,
                        !.query_count = Len(query_context),
                        !.queries = query_context,
                        !.n_plus_one_patterns = detect_n_plus_one(query_context)]
    /\ pc' = "exit_check"
    /\ UNCHANGED <<_instance, atexit, stdout, call, ret, collab, query_context, tracker, raised>>

\* monitor.py 267
ExitCheck ==
    /\ pc = "exit_check"
    /\ result' = _check_thresholds(result)
    /\ pc' = "exit_record"
    /\ UNCHANGED <<_instance, atexit, stdout, call, ret, collab, query_context, tracker, raised>>

add_result_front(results, test_name, r) == <<<<test_name, r>>>> \o results

add_result_once(results, test_name, r) ==
    IF \E k \in 1..Len(results) : results[k] = <<test_name, r>>
    THEN results ELSE Append(results, <<test_name, r>>)

\* summary.py 36-43
add_result(results, test_name, r) == Append(results, <<test_name, r>>)

\* an object of the class MercurySummaryTracker
TrackerObject(id) == [kind |-> "MercurySummaryTracker", id |-> id]

\* summary.py 25-34, run without interruption: the tracker is made on the
\* first call and its print_summary registered with atexit
instance(current, handlers) ==
    IF current = None
    THEN [_instance |-> TrackerObject(Len(handlers) + 1),
          atexit |-> Append(handlers, TrackerObject(Len(handlers) + 1))]
    ELSE [_instance |-> current, atexit |-> handlers]

ExitRecord_passing_only ==
    /\ pc = "exit_record"
    /\ IF result.test_name # <<>> /\ result.failures = <<>>
       THEN /\ _instance' = instance(_instance, atexit)._instance
            /\ atexit' = instance(_instance, atexit).atexit
            /\ tracker' = add_result(tracker, result.test_name, result)
       ELSE UNCHANGED <<_instance, atexit, tracker>>
    /\ pc' = "exit_raise"
    /\ UNCHANGED <<stdout, call, ret, collab, result, query_context, raised>>

\* monitor.py 270-273
ExitRecord ==
    /\ pc = "exit_record"
    /\ IF result.test_name # <<>>
       THEN /\ _instance' = instance(_instance, atexit)._instance
            /\ atexit' = instance(_instance, atexit).atexit
            /\ tracker' = add_result(tracker, result.test_name, result)
       ELSE UNCHANGED <<_instance, atexit, tracker>>
    /\ pc' = "exit_raise"
    /\ UNCHANGED <<stdout, call, ret, collab, result, query_context, raised>>

VerdictFails_on_warnings(r) == r.failures # <<>> \/ r.warnings # <<>>

\* `if result.failures:`
VerdictFails(r) == r.failures # <<>>

ExitRaise_clears_failures ==
    /\ pc = "exit_raise"
    /\ raised' = IF VerdictFails(result)
                 THEN Append(raised, Exception("AssertionError", _format_report(result)))
                 ELSE raised
    /\ result' = [result EXCEPT !.failures = <<>>]
    /\ pc' = "done"
    /\ UNCHANGED <<_instance, atexit, stdout, call, ret, collab, query_context, tracker>>

\* monitor.py 276-278
ExitRaise ==
    /\ pc = "exit_raise"
    /\ raised' = IF VerdictFails(result)
                 THEN Append(raised, Exception("AssertionError", _format_report(result)))
                 ELSE raised
    /\ pc' = "done"
    /\ UNCHANGED <<_instance, atexit, stdout, call, ret, collab, result, query_context, tracker>>

Next ==
    \/ Configure
    \/ CaptureContext
    \/ ImportCollaborators
    \/ OpenCapture
    \/ BodyQuery
    \/ BodyReturns
    \/ BodyRaises
    \/ ExitMeasure
    \/ ExitCheck
    \/ ExitRecord
    \/ ExitRaise

Spec == Init /\ [][Next]_vars

(***************************************************************************)
(* The collector in use: results are added and, at any time, the summary   *)
(* is printed or exported.                                                 *)
(***************************************************************************)
CollectedPairs ==
    {<<NameOf(1), Timed(MeasureLimit)>>,
     <<NameOf(2), Timed(MeasureLimit + 1)>>,
     <<NameOf(1), _check_thresholds(
                    [MonitorResult EXCEPT
                        !.n_plus_one_patterns =
                            <<N1Pattern(ShapeOf(1), MaxCount, SamplesOf(1))>>,
                        !.thresholds = [response_time_ms |-> MeasureLimit,
                                        query_count |-> MeasureLimit,
                                        n_plus_one_threshold |-> MaxCount]])>>}

InitCollector ==
    /\ pc = "collecting"
    /\ call = NoCall
    /\ ret = None
    /\ collab = "ok"
    /\ result = NoResult
    /\ query_context = <<>>
    /\ tracker = <<>>
    /\ raised = <<>>
    /\ _instance = TrackerObject(1)
    /\ atexit = <<TrackerObject(1)>>
    /\ stdout = <<>>

\* a session ends: MercurySummaryTracker.instance().add_result(name, result)
AddResult ==
    /\ pc \in {"collecting", "added", "printed", "exported"}
    /\ Len(tracker) < MaxCollected
    /\ \E pair \in CollectedPairs :
        /\ tracker' = add_result(tracker, pair[1], pair[2])
        /\ call' = [fn |-> "add_result", test_name |-> pair[1], result |-> pair[2]]
    /\ pc' = "added"
    /\ UNCHANGED <<ret, collab, result, query_context, raised, _instance, atexit, stdout>>

\* summary.py 60-159
PrintSummary ==
    /\ pc \in {"collecting", "added", "printed", "exported"}
    /\ Len(stdout) < MaxPrints
    /\ \E no_summary \in {"", "0", "1"} :
        /\ stdout' = stdout \o print_summary(tracker, no_summary)
        /\ call' = [fn |-> "print_summary", no_summary |-> no_summary]
    /\ pc' = "printed"
    /\ UNCHANGED <<ret, collab, result, query_context, tracker, raised, _instance, atexit>>

\* summary.py 45-58: the page is written to the file
ExportHtml ==
    /\ pc \in {"collecting", "added", "printed", "exported"}
    /\ \E now \in {1, 2} :
        /\ ret' \in export_summary_html(tracker, now)
        /\ call' = [fn |-> "export_html", now |-> now]
    /\ pc' = "exported"
    /\ UNCHANGED <<collab, result, query_context, tracker, raised, _instance, atexit, stdout>>

NextCollector == AddResult \/ PrintSummary \/ ExportHtml

SpecCollector == InitCollector /\ [][NextCollector]_vars

(***************************************************************************)
(* Sessions that end on several threads.  Each thread runs line 273 of     *)
(* monitor.py, MercurySummaryTracker.instance().add_result(name, result),  *)
(* one step per read or write of the shared state: the test of             *)
(* cls._instance, the construction with its atexit.register, the           *)
(* assignment of cls._instance, the read that is returned and              *)
(* results.append, which the interpreter runs as one step.  results is an  *)
(* attribute of the class, one list for every tracker that is made.        *)
(* Here pc gives the position of each thread and, at 0, of the process.    *)
(***************************************************************************)
Threads == 1..MaxThreads

SessionPairs ==
    {<<NameOf(1), Timed(MeasureLimit)>>, <<NameOf(2), Timed(MeasureLimit + 1)>>}

NoTracker == [made |-> None, instance |-> None]

InitThreads ==
    /\ pc = [t \in 0..MaxThreads |-> IF t = 0 THEN "running" ELSE "check"]
    /\ call \in [Threads -> SessionPairs]
    /\ ret = [t \in Threads |-> NoTracker]
    /\ collab = "ok"
    /\ result = NoResult
    /\ query_context = <<>>
    /\ tracker = <<>>
    /\ raised = <<>>
    /\ \/ _instance = None /\ atexit = <<>>
       \/ _instance = TrackerObject(1) /\ atexit = <<TrackerObject(1)>>
    /\ stdout = <<>>

\* summary.py 32: if cls._instance is None
CheckInstance(t) ==
    /\ pc[t] = "check"
    /\ pc' = [pc EXCEPT ![t] = IF _instance = None THEN "construct" ELSE "return"]
    /\ UNCHANGED <<call, ret, collab, result, query_context, tracker, raised,
                   _instance, atexit, stdout>>

\* summary.py 33, right side: cls() runs __init__, which registers the
\* new tracker's print_summary
Construct(t) ==
    /\ pc[t] = "construct"
    /\ atexit' = Append(atexit, TrackerObject(Len(atexit) + 1))
    /\ ret' = [ret EXCEPT ![t].made = TrackerObject(Len(atexit) + 1)]
    /\ pc' = [pc EXCEPT ![t] = "assign"]
    /\ UNCHANGED <<call, collab, result, query_context, tracker, raised,
                   _instance, stdout>>

\* summary.py 33, left side: cls._instance = ...
AssignInstance(t) ==
    /\ pc[t] = "assign"
    /\ _instance' = ret[t].made
    /\ pc' = [pc EXCEPT ![t] = "return"]
    /\ UNCHANGED <<call, ret, collab, result, query_context, tracker, raised,
                   atexit, stdout>>

\* summary.py 34: return cls._instance
ReturnInstance(t) ==
    /\ pc[t] = "return"
    /\ ret' = [ret EXCEPT ![t].instance = _instance]
    /\ pc' = [pc EXCEPT ![t] = "append"]
    /\ UNCHANGED <<call, collab, result, query_context, tracker, raised,
                   _instance, atexit, stdout>>

\* summary.py 43: self.results.append((test_name, result))
AppendResult(t) ==
    /\ pc[t] = "append"
    /\ tracker' = add_result(tracker, call[t][1], call[t][2])
    /\ pc' = [pc EXCEPT ![t] = "finished"]
    /\ UNCHANGED <<call, ret, collab, result, query_context, raised,
                   _instance, atexit, stdout>>

\* what the registered handlers print, the last registered first: each is
\* the print_summary of a tracker, and all of them read the one list
RECURSIVE RunHandlers(_, _, _, _)
RunHandlers(handlers, n, results, no_summary) ==
    IF n = 0 THEN <<>>
    ELSE print_summary(results, no_summary) \o RunHandlers(handlers, n - 1, results, no_summary)

\* the process ends when its threads have finished
RunExitHandlers ==
    /\ pc[0] = "running"
    /\ \A t \in Threads : pc[t] = "finished"
    /\ \E no_summary \in {"", "1"} :
        stdout' = stdout \o RunHandlers(atexit, Len(atexit), tracker, no_summary)
    /\ pc' = [pc EXCEPT ![0] = "exited"]
    /\ UNCHANGED <<call, ret, collab, result, query_context, tracker, raised,
                   _instance, atexit>>

NextThreads ==
    \/ \E t \in Threads :
        \/ CheckInstance(t)
        \/ Construct(t)
        \/ AssignInstance(t)
        \/ ReturnInstance(t)
        \/ AppendResult(t)
    \/ RunExitHandlers

SpecThreads == InitThreads /\ [][NextThreads]_vars


(***************************************************************************)
(* Claims about the session (Spec).                                        *)
(***************************************************************************)
AssertionErrors == {i \in 1..Len(raised) : raised[i].type = "AssertionError"}

\* C1: a session whose body returned raises an AssertionError carrying the
\* rendered report exactly when the failure list is non-empty after the
\* verdict phase; it is raised at most once, and only at session exit, after
\* the body has finished.
C1_AssertionIffFailures ==
    /\ pc = "done" => (AssertionErrors # {} <=> result.failures # <<>>)
    /\ Cardinality(AssertionErrors) <= 1
    /\ \A i \in AssertionErrors :
        /\ pc = "done"
        /\ raised[i].report = _format_report(result)

C1_Witness ==
    /\ pc = "done"
    /\ AssertionErrors # {}
    /\ result.query_count > result.thresholds["query_count"]
    /\ result.warnings # <<>>

(***************************************************************************)
(* Claims about _check_thresholds (SpecCheck).                             *)
(***************************************************************************)
Checked == Returned("_check_thresholds")

\* The messages one evaluation appended to a list.
Added(before, after) == SubSeq(after, Len(before) + 1, Len(after))
AddedFailures == Added(call.result.failures, ret.failures)
AddedWarnings == Added(call.result.warnings, ret.warnings)

\* An evaluation only appends.
OnlyAppended ==
    /\ Len(ret.failures) >= Len(call.result.failures)
    /\ SubSeq(ret.failures, 1, Len(call.result.failures)) = call.result.failures
    /\ Len(ret.warnings) >= Len(call.result.warnings)
    /\ SubSeq(ret.warnings, 1, Len(call.result.warnings)) = call.result.warnings

IsResponseTimeFailure(m) ==
    m[1].label = "Response time {:.2f}ms exceeded threshold {}ms (+{:.2f}ms over)"
IsQueryCountFailure(m) ==
    m[1].label = "Query count {} exceeded threshold {} (+{} extra queries)"
IsN1Failure(m) ==
    m[1].label = "N+1 pattern detected: {} similar queries (threshold: {})"
IsN1Warning(m) ==
    m[1].label = "N+1 WARNING: {} similar queries detected (approaching threshold: {})"
IsN1Notice(m) == m[1].label = "N+1 notice: {} similar queries"
IsPatternMessage(m) == IsN1Failure(m) \/ IsN1Warning(m) \/ IsN1Notice(m)

\* Message m is about pattern p: it names p's count and p's shape.
About(m, p) ==
    /\ IsPatternMessage(m)
    /\ m[1].nums[1] = p.count
    /\ m[2].sql = p.normalized_query

HowMany(list, Is(_)) == Cardinality({j \in 1..Len(list) : Is(list[j])})

\* The tier limits as the claim gives them, with floors.
FloorWarn(T) == (8 * T) \div 10
FloorNotice(T) == Max(3, (5 * T) \div 10)

\* <<failures, N+1 WARNINGs, N+1 notices>> emitted about pattern p, and
\* whether anything else was emitted about it.
Emitted(p) ==
    LET F(m) == About(m, p) /\ IsN1Failure(m)
        W(m) == About(m, p) /\ IsN1Warning(m)
        N(m) == About(m, p) /\ IsN1Notice(m)
    IN  <<HowMany(AddedFailures, F), HowMany(AddedWarnings, W),
          HowMany(AddedWarnings, N)>>

NothingElseAbout(p) ==
    LET A(m) == About(m, p)
        e == Emitted(p)
    IN  HowMany(AddedFailures, A) + HowMany(AddedWarnings, A) = e[1] + e[2] + e[3]

\* C2: each pattern gets exactly the one message of its tier, or none:
\* failure for c >= T, 'N+1 WARNING' for floor(0.8T) <= c < T, 'N+1 notice'
\* for max(3, floor(0.5T)) <= c < floor(0.8T), nothing below both.
C2_OneMessagePerTier ==
    Checked =>
        \A i \in 1..Len(call.result.n_plus_one_patterns) :
            LET p == call.result.n_plus_one_patterns[i]
                c == p.count
                T == call.result.thresholds["n_plus_one_threshold"]
            IN  /\ NothingElseAbout(p)
                /\ c >= T => Emitted(p) = <<1, 0, 0>>
                /\ (FloorWarn(T) <= c /\ c < T) => Emitted(p) = <<0, 1, 0>>
                /\ (FloorNotice(T) <= c /\ c < FloorWarn(T)) => Emitted(p) = <<0, 0, 1>>
                /\ (c < FloorNotice(T) /\ c < FloorWarn(T) /\ c < T) =>
                        Emitted(p) = <<0, 0, 0>>

\* counts 8 and 5 against threshold 10: one WARNING, then one notice
C2_Witness ==
    /\ Checked
    /\ call.result.thresholds["n_plus_one_threshold"] = 10
    /\ Len(call.result.n_plus_one_patterns) = 2
    /\ call.result.n_plus_one_patterns[1].count = 8
    /\ call.result.n_plus_one_patterns[2].count = 5
    /\ Len(AddedWarnings) = 2
    /\ IsN1Warning(AddedWarnings[1])
    /\ IsN1Notice(AddedWarnings[2])

\* C3: the two metric rules are independent and strict: one response-time
\* failure iff time > limit, one query-count failure iff count > limit, and
\* the failures added are these plus one per pattern with count >= T.
Indicator(b) == IF b THEN 1 ELSE 0

C3_MetricRulesIndependent ==
    Checked =>
        LET r == call.result
            T == r.thresholds["n_plus_one_threshold"]
            failing == {i \in 1..Len(r.n_plus_one_patterns) :
                            r.n_plus_one_patterns[i].count >= T}
        IN  /\ OnlyAppended
            /\ HowMany(AddedFailures, IsResponseTimeFailure) =
                    Indicator(r.response_time_ms > r.thresholds["response_time_ms"])
            /\ HowMany(AddedFailures, IsQueryCountFailure) =
                    Indicator(r.query_count > r.thresholds["query_count"])
            /\ Len(AddedFailures) =
                    Indicator(r.response_time_ms > r.thresholds["response_time_ms"])
                    + Indicator(r.query_count > r.thresholds["query_count"])
                    + Cardinality(failing)

\* time on its limit passes while the query count above its limit fails
C3_Witness ==
    /\ Checked
    /\ call.result.response_time_ms = call.result.thresholds["response_time_ms"]
    /\ call.result.query_count > call.result.thresholds["query_count"]
    /\ call.result.n_plus_one_patterns # <<>>
    /\ Len(AddedFailures) = 2
    /\ IsQueryCountFailure(AddedFailures[1])
    /\ IsN1Failure(AddedFailures[2])

\* C4: the failures are added in the order response time, query count,
\* patterns; pattern messages keep the order of their patterns in each list.
Rank(m) ==
    IF IsResponseTimeFailure(m) THEN 1 ELSE IF IsQueryCountFailure(m) THEN 2 ELSE 3

\* the place in the input list of the pattern message m is about
PatternOf(m) ==
    CHOOSE i \in 1..Len(call.result.n_plus_one_patterns) :
        About(m, call.result.n_plus_one_patterns[i])

InPatternOrder(list) ==
    \A a, b \in 1..Len(list) :
        (a < b /\ IsPatternMessage(list[a]) /\ IsPatternMessage(list[b])) =>
            PatternOf(list[a]) < PatternOf(list[b])

C4_FixedOrder ==
    Checked =>
        /\ \A a, b \in 1..Len(AddedFailures) :
                a < b => Rank(AddedFailures[a]) < Rank(AddedFailures[b])
                         \/ (Rank(AddedFailures[a]) = 3 /\ Rank(AddedFailures[b]) = 3)
        /\ InPatternOrder(AddedFailures)
        /\ InPatternOrder(AddedWarnings)

\* both metric failures and two pattern failures in one evaluation
C4_Witness ==
    /\ Checked
    /\ Len(AddedFailures) = 4
    /\ IsResponseTimeFailure(AddedFailures[1])
    /\ IsQueryCountFailure(AddedFailures[2])
    /\ About(AddedFailures[3], call.result.n_plus_one_patterns[1])
    /\ About(AddedFailures[4], call.result.n_plus_one_patterns[2])

(***************************************************************************)
(* Claims about resolve_thresholds (SpecResolve).                          *)
(***************************************************************************)
\* What a layer's value holds, as the caller wrote it.
ItemsOf(cfg) == IF cfg.kind \in {"dict", "bad"} THEN cfg.items ELSE <<>>

\* The nearest frame that satisfies Exposes, 0 when there is none.
Nearest(frames, Exposes(_)) ==
    LET S == {i \in 1..Len(frames) : Exposes(frames[i])} IN
    IF S = {} THEN 0 ELSE CHOOSE i \in S : \A j \in S : i <= j

ExposesValue(f) == f.module /\ f.config.kind # "none"
ExposesTruthy(f) == f.module /\ f.config.kind \in {"dict", "bad"}

\* The caller-scope layer: what the nearest frame with a truthy value holds.
FileItems(stack) ==
    LET i == Nearest(stack.frames, ExposesTruthy) IN
    IF i = 0 THEN <<>> ELSE ItemsOf(stack.frames[i].config)

\* The value of key k given the mappings of the three layers.
ByPriority(k, inline, file, settings) ==
    IF k \in DOMAIN inline THEN inline[k]
    ELSE IF k \in DOMAIN file THEN file[k]
    ELSE IF k \in DOMAIN settings THEN settings[k]
    ELSE DEFAULTS[k]

\* C5: every key passed inline is resolved to its inline value, whatever the
\* settings layer and the caller-scope layer hold for it.
C5_InlineAlwaysWins ==
    Returned("resolve_thresholds") =>
        \A k \in DOMAIN call.inline_overrides :
            /\ k \in DOMAIN ret.thresholds
            /\ ret.thresholds[k] = call.inline_overrides[k]

C5_Witness ==
    /\ Returned("resolve_thresholds")
    /\ \E k \in DOMAIN call.inline_overrides :
        /\ k \in DOMAIN ItemsOf(call.settings)
        /\ k \in DOMAIN FileItems(call.stack)

\* C6: layers merge key by key: every key is resolved to the value of the
\* highest-priority layer that defines it, inline > caller scope > settings >
\* defaults; a layer defines the keys of the pairs it yields.
C6_MergedKeyByKey ==
    Returned("resolve_thresholds") =>
        ret.thresholds =
            [k \in Keys |-> ByPriority(k, call.inline_overrides,
                                       FileItems(call.stack), ItemsOf(call.settings))]

C6_Witness ==
    /\ Returned("resolve_thresholds")
    /\ call.settings.kind = "dict"
    /\ DOMAIN call.inline_overrides = {"response_time_ms"}
    /\ DOMAIN FileItems(call.stack) = {"response_time_ms", "query_count"}
    /\ DOMAIN ItemsOf(call.settings) = Keys
    /\ ret.thresholds["response_time_ms"] = InlineValue
    /\ ret.thresholds["n_plus_one_threshold"] = SettingsValue

LayerContributed ==
    \/ DOMAIN call.inline_overrides # {}
    \/ DOMAIN FileItems(call.stack) # {}
    \/ DOMAIN ItemsOf(call.settings) # {}

\* C7: used_defaults is true exactly when no layer contributed a key, and
\* then the thresholds are the built-in defaults.
C7_UsedDefaultsIffNoLayer ==
    Returned("resolve_thresholds") =>
        /\ ret.used_defaults <=> ~LayerContributed
        /\ ret.used_defaults => ret.thresholds = DEFAULTS

SettingsFailed == call.settings.kind \in {"raises", "bad"}

FileFailed ==
    \/ call.stack.raises
    \/ LET i == Nearest(call.stack.frames, ExposesTruthy) IN
       i # 0 /\ call.stack.frames[i].config.kind = "bad"

\* C8: a layer whose reading raises contributes nothing: the result is the
\* one obtained with that layer absent.
C8_FailingLayerAsAbsent ==
    Returned("resolve_thresholds") =>
        LET settings == IF SettingsFailed THEN <<>> ELSE ItemsOf(call.settings)
            file == IF FileFailed THEN <<>> ELSE FileItems(call.stack)
        IN  /\ ret.thresholds =
                [k \in Keys |-> ByPriority(k, call.inline_overrides, file, settings)]
            /\ ret.used_defaults <=>
                /\ DOMAIN call.inline_overrides = {}
                /\ DOMAIN file = {}
                /\ DOMAIN settings = {}

(***************************************************************************)
(* Resolution on its own and in every session (SpecThresholds).            *)
(***************************************************************************)
InitThresholds == InitResolve \/ Init
NextThresholds == NextResolve \/ Next
SpecThresholds == InitThresholds /\ [][NextThresholds]_vars

InSession == pc \notin {"call", "returned", "start"}

\* C9: the thresholds resolve_thresholds returns, and so the thresholds of
\* the result of every session, hold all three keys, whatever layers are
\* present, absent or partial.
C9_AllKeysPresent ==
    /\ Returned("resolve_thresholds") => Keys \subseteq DOMAIN ret.thresholds
    /\ InSession => Keys \subseteq DOMAIN result.thresholds

C9_Witness ==
    /\ Returned("resolve_thresholds")
    /\ DOMAIN call.inline_overrides = {"query_count"}
    /\ call.settings.kind = "dict"
    /\ DOMAIN call.settings.items = {"response_time_ms"}
    /\ DOMAIN FileItems(call.stack) = {"response_time_ms"}
    /\ ret.thresholds["n_plus_one_threshold"] = DEFAULTS["n_plus_one_threshold"]

\* A key written by frame j carries FrameValue(j).
FrameContributes(j) ==
    \E k \in DOMAIN ret.thresholds : ret.thresholds[k] = FrameValue(j)

\* C10: the walk stops at the nearest frame whose module exposes
\* MERCURY_PERFORMANCE_THRESHOLDS, so no farther frame contributes a key.
C10_NearestExposingFrame ==
    Returned("resolve_thresholds") =>
        LET i == Nearest(call.stack.frames, ExposesValue) IN
        \A j \in 1..Len(call.stack.frames) : (i # 0 /\ j > i) => ~FrameContributes(j)

(***************************************************************************)
(* Claims about detect_n_plus_one (SpecDetect).                            *)
(***************************************************************************)
Detected == Returned("detect_n_plus_one")

\* The places of the input whose query has the normalized shape.
Members(shape) ==
    {i \in 1..Len(call.queries) : normalize_query(call.queries[i].sql) = shape}

InputShapes ==
    {normalize_query(call.queries[i].sql) : i \in 1..Len(call.queries)}

PatternsOf(shape) == {j \in 1..Len(ret) : ret[j].normalized_query = shape}

RECURSIVE SumCounts(_, _)
SumCounts(patterns, n) ==
    IF n = 0 THEN 0 ELSE SumCounts(patterns, n - 1) + patterns[n].count

\* C11: one pattern for each shape that at least 3 queries share and none
\* for any other shape; a pattern's count is the number of queries of its
\* shape, so no count is below 3 and the counts sum to at most the number
\* of queries.
C11_OnePatternPerRepeatedShape ==
    Detected =>
        /\ \A shape \in InputShapes :
                Cardinality(PatternsOf(shape)) =
                    IF Cardinality(Members(shape)) >= 3 THEN 1 ELSE 0
        /\ \A j \in 1..Len(ret) :
                /\ ret[j].normalized_query \in InputShapes
                /\ ret[j].count = Cardinality(Members(ret[j].normalized_query))
                /\ ret[j].count >= 3
        /\ SumCounts(ret, Len(ret)) <= Len(call.queries)

\* one shape seen exactly 3 times, another seen twice, in one list
C11_Witness ==
    /\ Detected
    /\ Len(ret) = 1
    /\ ret[1].count = 3
    /\ Cardinality(InputShapes) = 2
    /\ Len(call.queries) = 5

\* The place where a shape is first seen in the input.
FirstSeen(shape) == CHOOSE i \in Members(shape) : \A k \in Members(shape) : i <= k

\* C12: the patterns are sorted by count, largest first, and patterns of
\* equal count keep the order in which their shapes were first seen.
C12_SortedStable ==
    Detected =>
        \A a, b \in 1..Len(ret) :
            a < b =>
                /\ ret[a].count >= ret[b].count
                /\ ret[a].count = ret[b].count =>
                        FirstSeen(ret[a].normalized_query)
                            < FirstSeen(ret[b].normalized_query)

\* two patterns of equal count, the shape of two letters seen first
C12_Witness ==
    /\ Detected
    /\ Len(ret) = 2
    /\ ret[1].count = ret[2].count
    /\ ret[1].normalized_query = ShapeOf(2)
    /\ ret[2].normalized_query = ShapeOf(1)

\* The k-th smallest element of a set of places.
RECURSIVE Kth(_, _)
Kth(places, k) ==
    LET least == CHOOSE i \in places : \A j \in places : i <= j IN
    IF k = 1 THEN least ELSE Kth(places \ {least}, k - 1)

\* C13: every pattern carries exactly three samples: the raw texts of the
\* first three queries of its shape, in the order of the input.
C13_FirstThreeSamples ==
    Detected =>
        \A j \in 1..Len(ret) :
            /\ Len(ret[j].sample_queries) = 3
            /\ \A k \in 1..3 :
                    ret[j].sample_queries[k] =
                        call.queries[Kth(Members(ret[j].normalized_query), k)].sql

\* a shape of four queries whose last three differ from its first three
C13_Witness ==
    /\ Detected
    /\ Len(ret) = 1
    /\ ret[1].count = 4
    /\ ret[1].sample_queries = <<RawOf(1, "1"), RawOf(1, "2"), RawOf(1, "1")>>
    /\ call.queries[Len(call.queries)].sql = RawOf(1, "2")

(***************************************************************************)
(* Claims about normalize_query (SpecNormalize).                           *)
(***************************************************************************)
Normalized == Returned("normalize_query")

HoldsLiteral(sql) ==
    \E i \in 1..Len(sql) : sql[i] = "'" \/ MatchNumber(sql, i) # 0

\* C16: normalize_query alters literal spans only: identifiers, keywords,
\* function calls and punctuation stay as they are, so a query that holds no
\* literal is returned unchanged.
C16_NoLiteralUnchanged ==
    (Normalized /\ ~HoldsLiteral(call.sql)) => ret = call.sql

(***************************************************************************)
(* Claims about queries of one structure (SpecLiterals).                   *)
(***************************************************************************)
\* C15: two queries of one structure that differ only in the values of
\* their integer, string or UUID literals normalize to the same text, so
\* that detect_n_plus_one puts them into one group.
C15_SameStructureSameShape ==
    (Returned("normalize_each") /\ call.kind = "literals") => ret[1] = ret[2]

\* C17: the list of an IN clause, whatever the case of the keyword and the
\* number of its elements, becomes the fixed text IN (?), so two queries
\* that differ only in the number or the values of the elements normalize
\* to the same text.
C17_InListCollapsed ==
    (Returned("normalize_each") /\ call.kind = "in") =>
        /\ ret[1] = <<"x", " ", "I", "N", " ", "(", "?", ")", " ", "z">>
        /\ ret[1] = ret[2]

\* in (1) against in ('a)', 'a''b', 1)
C17_Witness ==
    /\ Returned("normalize_each")
    /\ call.kind = "in"
    /\ call.sql = InClause(<<"i", "n">>, <<>>, <<<<"1">>>>)
    /\ call.other = InClause(<<"i", "n">>, <<>>,
                             <<<<"'", "a", ")", "'">>,
                               <<"'", "a", "'", "'", "b", "'">>, <<"1">>>>)
    /\ ret[1] = ret[2]

(***************************************************************************)
(* Claims about _format_report (SpecReport).                               *)
(***************************************************************************)
Reported == Returned("_format_report")

\* text occurs in whole as a run of atoms
OccursIn(part, whole) ==
    \E k \in 0..(Len(whole) - Len(part)) :
        \A j \in 1..Len(part) : whole[k + j] = part[j]

MessagesOf(r) == r.failures \o r.warnings

\* C18 as stated: the text of the report holds every message of the failure
\* list and of the warning list as a literal substring, the multi-line N+1
\* messages included.
C18_MessagesLiteral ==
    Reported =>
        LET text == ReportText(ret, Len(ret))
            messages == MessagesOf(call.result)
        IN  \A i \in 1..Len(messages) :
                OccursIn(MessageText(messages[i], Len(messages[i])), text)

\* the lines of all messages of a list, in order
RECURSIVE Flat(_, _)
Flat(messages, n) ==
    IF n = 0 THEN <<>> ELSE Flat(messages, n - 1) \o messages[n]

BulletsOf(report, section) ==
    LET InSection(b) == b.bullet /\ b.section = section IN SelectSeq(report, InSection)

LinesKept(messages, bullets) ==
    LET lines == Flat(messages, Len(messages)) IN
    /\ Len(bullets) = Len(lines)
    /\ \A i \in 1..Len(lines) :
        /\ bullets[i].label =
                (IF lines[i].label = MarkedLabel THEN "slow query" ELSE lines[i].label)
        /\ bullets[i].nums = lines[i].nums
        /\ bullets[i].sql = lines[i].sql
        /\ OccursIn(<<Atom("text", bullets[i])>>, ReportText(ret, Len(ret)))

\* C18 amended: the report holds every line of every message of the failure
\* list and of the warning list, each as one bullet line of its section, in
\* the order of the messages and of their lines, without the blanks around
\* the line and without the marks of the old format.
C18_EveryLineKept ==
    Reported =>
        /\ LinesKept(call.result.failures, BulletsOf(ret, "failures"))
        /\ LinesKept(call.result.warnings, BulletsOf(ret, "warnings"))

\* an N+1 failure of several lines next to a warning of the old format
C18_Witness ==
    /\ Reported
    /\ \E i \in 1..Len(call.result.failures) : Len(call.result.failures[i]) > 3
    /\ \E i \in 1..Len(call.result.warnings) : call.result.warnings[i] = LegacyWarning
    /\ Len(BulletsOf(ret, "failures")) > 3

(***************************************************************************)
(* Claims about _truncate_sql (SpecTruncate).                              *)
(***************************************************************************)
EndsWithEllipsis(text) ==
    Len(text) >= 3 /\ SubSeq(text, Len(text) - 2, Len(text)) = <<".", ".", ".">>

\* C19: a text no longer than max_length is returned unchanged; a longer
\* text is cut so that the result ends with "..." and is exactly max_length
\* long, for every max_length.
C19_CutToMaxLength ==
    Returned("_truncate_sql") =>
        IF Len(call.sql) <= call.max_length
        THEN ret = call.sql
        ELSE EndsWithEllipsis(ret) /\ Len(ret) = call.max_length

(***************************************************************************)
(* Claims about a session without its collaborator (Spec).                 *)
(***************************************************************************)
Unavailable == collab \in {"missing", "unconfigured"}

RaisedTypes == {raised[i].type : i \in 1..Len(raised)}

HeldByCaller ==
    \/ pc \in {"body", "exit_measure", "exit_check", "exit_record", "exit_raise", "done"}
    \/ pc = "failed" /\ "BodyError" \in RaisedTypes

\* add_result of line 273 is behind the session
Recorded == pc \in {"exit_raise", "done"}

InitialMetrics(r) ==
    /\ r.response_time_ms = 0
    /\ r.query_count = 0
    /\ r.queries = <<>>
    /\ r.n_plus_one_patterns = <<>>

\* C21 as stated: once a consumer, the caller or the collector, holds the
\* result, the session writes no field of it.
C21_NoWriteAfterHandoff ==
    [][(HeldByCaller \/ tracker # <<>>) => result' = result]_vars

\* C21 amended: the caller holds the result from the yield on, with its
\* metrics still unset while the body runs; the collector gets the result
\* only behind the verdict, and from then on the collected result and the
\* session's result are the same: the session writes no field after
\* add_result.
C21_FrozenOnceRecorded ==
    /\ pc = "body" => InitialMetrics(result) /\ result.failures = <<>>
    /\ tracker # <<>> =>
        /\ Recorded
        /\ tracker = <<<<result.test_name, result>>>>

\* a failed verdict, recorded and raised, behind a body that issued queries
C21_Witness ==
    /\ pc = "done"
    /\ tracker = <<<<result.test_name, result>>>>
    /\ result.failures # <<>>
    /\ result.query_count > 0
    /\ AssertionErrors # {}

BodyReturned ==
    pc \in {"exit_measure", "exit_check", "exit_record", "exit_raise", "done"}

\* C27: behind a body that returned, a session with a test name has
\* appended exactly one pair (name, result) to the collector when line 273
\* is passed, and nothing before; the pair holds the result with its
\* verdict, and the AssertionError comes only behind it, so a failing
\* session is recorded too; a session without a test name appends nothing.
C27_RecordedOnceBeforeRaise ==
    /\ (InSession /\ ~Recorded) => tracker = <<>>
    /\ Recorded =>
        tracker = IF result.test_name # <<>>
                  THEN <<<<result.test_name, result>>>> ELSE <<>>
    /\ AssertionErrors # {} =>
        /\ pc = "done"
        /\ result.failures # <<>>
        /\ result.test_name # <<>> => tracker[1][2].failures = result.failures

\* a named session with a failing verdict: recorded, then raised
C27_Witness ==
    /\ pc = "done"
    /\ result.test_name # <<>>
    /\ Len(tracker) = 1
    /\ tracker[1][2].failures # <<>>
    /\ AssertionErrors # {}

\* C28: when the body raises, its exception is the only one that leaves the
\* session and the exit phase does not run: the metrics stay as they were
\* made, no failure is added, nothing is appended to the collector and no
\* AssertionError is raised.
C28_BodyErrorPropagates ==
    "BodyError" \in RaisedTypes =>
        /\ pc = "failed"
        /\ raised = <<Exception("BodyError", <<>>)>>
        /\ InitialMetrics(result)
        /\ result.failures = <<>>
        /\ tracker = <<>>

\* the body raised behind three queries of one shape
C28_Witness ==
    /\ pc = "failed"
    /\ raised = <<Exception("BodyError", <<>>)>>
    /\ Len(query_context) >= RepetitionFloor
    /\ result.test_name # <<>>

(***************************************************************************)
(* Claims about the renderings of a checked result (SpecExport).           *)
(***************************************************************************)
Rendered == Returned("render")

HasMessage(messages, message) == \E i \in 1..Len(messages) : messages[i] = message

\* C26: in the HTML page the response time is marked fail exactly when
\* _check_thresholds added the response time failure, the query count is
\* marked fail exactly when it added the query count failure, and the
\* status is FAILED exactly when there is a failure; a measure equal to its
\* threshold is marked pass.  The colours of the text report agree.
C26_MarksAgreeWithVerdict ==
    Rendered =>
        LET r == call.result
            page == ret.html
            time_failed == HasMessage(r.failures,
                                ResponseTimeFailure(r.response_time_ms,
                                                    r.thresholds["response_time_ms"]))
            query_failed == HasMessage(r.failures,
                                QueryCountFailure(r.query_count,
                                                  r.thresholds["query_count"]))
            MetricColor(label) ==
                LET IsLine(b) == b.section = "metrics" /\ b.label = label
                IN  SelectSeq(ret.text, IsLine)[1].color
        IN  /\ page.time_class = (IF time_failed THEN "fail" ELSE "pass")
            /\ page.query_class = (IF query_failed THEN "fail" ELSE "pass")
            /\ page.status = (IF r.failures # <<>> THEN "FAILED" ELSE "PASSED")
            /\ page.status_class = (IF r.failures # <<>> THEN "fail" ELSE "pass")
            /\ r.response_time_ms = r.thresholds["response_time_ms"] =>
                    page.time_class = "pass"
            /\ r.query_count = r.thresholds["query_count"] => page.query_class = "pass"
            /\ MetricColor("Response time: {} (threshold: {})") =
                    (IF time_failed THEN "RED" ELSE "GREEN")
            /\ MetricColor("Query count:   {} (threshold: {})") =
                    (IF query_failed THEN "RED" ELSE "GREEN")

\* the time on its threshold, the query count above its threshold
C26_Witness ==
    /\ Rendered
    /\ call.result.response_time_ms = call.result.thresholds["response_time_ms"]
    /\ call.result.query_count > call.result.thresholds["query_count"]
    /\ ret.html.time_class = "pass"
    /\ ret.html.query_class = "fail"
    /\ ret.html.status = "FAILED"

\* the label lines of the patterns section of the text report
TextLabels(report) ==
    LET IsLabel(b) == b.section = "patterns" /\ b.label \in {"FAIL", "WARN", "INFO"}
    IN  SelectSeq(report, IsLabel)

\* the counts named by the messages whose first line has the given label
RECURSIVE CountsNamed(_, _, _)
CountsNamed(messages, label, n) ==
    IF n = 0 THEN <<>>
    ELSE CountsNamed(messages, label, n - 1)
         \o (IF messages[n][1].label = label THEN <<messages[n][1].nums[1]>> ELSE <<>>)

\* the counts of the patterns that carry the given label in the text report
RECURSIVE CountsLabelled(_, _, _)
CountsLabelled(labels, label, n) ==
    IF n = 0 THEN <<>>
    ELSE CountsLabelled(labels, label, n - 1)
         \o (IF labels[n].label = label THEN <<labels[n].nums[1]>> ELSE <<>>)

HtmlLabelOf(label) ==
    CASE label = "FAIL" -> "FAILURE" [] label = "WARN" -> "WARNING" [] label = "INFO" -> "NOTICE"

\* C30: every pattern has one label in the text report and one in the HTML
\* page, and they agree (FAIL/FAILURE, WARN/WARNING, INFO/NOTICE); the
\* patterns labelled FAIL are those _check_thresholds added a failure for,
\* those labelled WARN are those it added an N+1 WARNING for, and all
\* others are labelled INFO, those it added a notice for and those below
\* the notice floor that it added nothing for.
C30_LabelsAgreeWithVerdict ==
    Rendered =>
        LET r == call.result
            patterns == r.n_plus_one_patterns
            labels == TextLabels(ret.text)
            entries == ret.html.n_plus_one_section
            T == r.thresholds["n_plus_one_threshold"]
            Noticed(c) == c >= notice_threshold(T)
        IN  /\ Len(labels) = Len(patterns)
            /\ Len(entries) = Len(patterns)
            /\ \A j \in 1..Len(patterns) :
                /\ labels[j].nums = <<patterns[j].count>>
                /\ entries[j].count = patterns[j].count
                /\ entries[j].severity = HtmlLabelOf(labels[j].label)
            /\ CountsLabelled(labels, "FAIL", Len(labels)) =
                    CountsNamed(r.failures,
                        "N+1 pattern detected: {} similar queries (threshold: {})",
                        Len(r.failures))
            /\ CountsLabelled(labels, "WARN", Len(labels)) =
                    CountsNamed(r.warnings,
                        "N+1 WARNING: {} similar queries detected (approaching threshold: {})",
                        Len(r.warnings))
            /\ SelectSeq(CountsLabelled(labels, "INFO", Len(labels)), Noticed) =
                    CountsNamed(r.warnings, "N+1 notice: {} similar queries",
                                Len(r.warnings))

\* two patterns labelled INFO: a notice for the first, nothing for the second
C30_Witness ==
    /\ Rendered
    /\ Len(call.result.n_plus_one_patterns) = 2
    /\ ret.html.n_plus_one_section[1].severity = "NOTICE"
    /\ ret.html.n_plus_one_section[2].severity = "NOTICE"
    /\ TextLabels(ret.text)[2].label = "INFO"
    /\ Len(call.result.warnings) = 1
    /\ call.result.failures = <<>>

(***************************************************************************)
(* Claims about the summary page (SpecPatternSummary, SpecSlowest).        *)
(***************************************************************************)
Summarized == Returned("_format_n_plus_one_summary")

ShapesIn(results) ==
    UNION {{results[i][2].n_plus_one_patterns[j].normalized_query :
                j \in 1..Len(results[i][2].n_plus_one_patterns)} :
           i \in 1..Len(results)}

RECURSIVE SumShape(_, _, _)
SumShape(patterns, shape, n) ==
    IF n = 0 THEN 0
    ELSE SumShape(patterns, shape, n - 1)
         + (IF patterns[n].normalized_query = shape THEN patterns[n].count ELSE 0)

RECURSIVE TotalOf(_, _, _)
TotalOf(results, shape, n) ==
    IF n = 0 THEN 0
    ELSE TotalOf(results, shape, n - 1)
         + SumShape(results[n][2].n_plus_one_patterns, shape,
                    Len(results[n][2].n_plus_one_patterns))

TestsWith(results, shape) ==
    {results[i][1] : i \in {k \in 1..Len(results) :
        SumShape(results[k][2].n_plus_one_patterns, shape,
                 Len(results[k][2].n_plus_one_patterns)) > 0}}

Ranked == Returned("_format_slowest_section")

\* the place in the collection of the result listed under a test name
PlaceOf(results, test_name) == CHOOSE i \in 1..Len(results) : results[i][1] = test_name

\* result i is ranked before result j
RankedBefore(results, i, j) ==
    \/ results[i][2].response_time_ms > results[j][2].response_time_ms
    \/ /\ results[i][2].response_time_ms = results[j][2].response_time_ms
       /\ i < j

\* C25: the slowest ranking lists 10 results, or all if there are fewer;
\* they stand in non-increasing order of response time, equal times in the
\* order of the collection, and every result left out comes behind every
\* listed one in that order.
C25_TopTenStable ==
    Ranked =>
        LET results == call.results
            place == [k \in 1..Len(ret) |-> PlaceOf(results, ret[k].test_name)]
            listed == {place[k] : k \in 1..Len(ret)}
        IN  /\ Len(ret) = (IF Len(results) < 10 THEN Len(results) ELSE 10)
            /\ \A k \in 1..Len(ret) :
                /\ \E i \in 1..Len(results) : results[i][1] = ret[k].test_name
                /\ ret[k].response_time_ms = results[place[k]][2].response_time_ms
            /\ \A k, l \in 1..Len(ret) : k < l => RankedBefore(results, place[k], place[l])
            /\ \A i \in (1..Len(results)) \ listed :
                \A k \in 1..Len(ret) : RankedBefore(results, place[k], i)

\* eleven results, the last the slowest and alone above the others: it is
\* listed first and the tenth of the others is left out
C25_Witness ==
    /\ Ranked
    /\ Len(call.results) = 11
    /\ Len(ret) = 10
    /\ ret[1].test_name = NameOf(11)
    /\ ret[2].test_name = NameOf(1)
    /\ ret[10].test_name = NameOf(9)

(***************************************************************************)
(* Claims about the collector (SpecCollector).                             *)
(***************************************************************************)
\* C22: the collector is append-only: every operation leaves the pairs
\* collected so far as they are and where they are; add_result puts one
\* pair behind them, print_summary and export_html add nothing.
C22_AppendOnly ==
    [][/\ Len(tracker') >= Len(tracker)
       /\ SubSeq(tracker', 1, Len(tracker)) = tracker
       /\ pc' = "added" =>
            tracker' = Append(tracker, <<call'.test_name, call'.result>>)
       /\ pc' \in {"printed", "exported"} => tracker' = tracker]_vars

\* three results collected, the summary printed and a page written when two
\* were there
C22_Witness ==
    /\ Len(tracker) = 3
    /\ tracker[1] # tracker[2]
    /\ stdout # <<>>
    /\ ret # None
    /\ ret.total_tests = 2

(***************************************************************************)
(* Claims about sessions that end on several threads (SpecThreads).        *)
(***************************************************************************)
Finished == {t \in Threads : pc[t] = "finished"}

EntriesOf(pair) == {k \in 1..Len(tracker) : tracker[k] = pair}

\* C23: in every interleaving the collector holds, for every pair, as many
\* entries as sessions with that pair have completed: one entry per
\* completed session, none lost and none twice, also when the threads have
\* made two trackers.
C23_OneEntryPerSession ==
    /\ Len(tracker) = Cardinality(Finished)
    /\ \A pair \in SessionPairs :
        Cardinality(EntriesOf(pair)) =
            Cardinality({t \in Finished : call[t] = pair})

\* two sessions with the same name and result have completed, each through
\* a tracker of its own
C23_Witness ==
    /\ Finished = Threads
    /\ call[1] = call[2]
    /\ ret[1].instance # ret[2].instance
    /\ Len(tracker) >= 2

\* the threads that have received a tracker from instance()
Received == {t \in Threads : pc[t] \in {"append", "finished"}}

\* C29: in every interleaving the threads that call instance() for the
\* first time construct one tracker, all receive the same object, one
\* handler is registered and the summary is printed at most once at exit.
C29_Singleton ==
    /\ Len(atexit) <= 1
    /\ \A t, u \in Received : ret[t].instance = ret[u].instance
    /\ Len(stdout) <= 1

====
